---- MODULE Spec2Model ----
(***************************************************************************)
(* Payment transaction lifecycle of the payment_culqi add-on: the HTTP     *)
(* controllers (checkout confirmation, server-side card processing,        *)
(* webhook), the payment.transaction overrides that create a charge and    *)
(* apply a gateway response or a notification, and the provider's gateway  *)
(* client.                                                                 *)
(*                                                                         *)
(* A character string of the program is a sequence of one-character        *)
(* strings, so that `in`, split and ilike are computed and not assumed.    *)
(* Money is an integer number of hundredths (5000 is 50.00).               *)
(***************************************************************************)
EXTENDS Integers, Sequences, FiniteSets, TLC

\* ---------------------------------------------------------------- bounds
\* Number of charge-creation requests the handlers may send in one run.
MaxCharges == 2

\* ------------------------------------------------------------- constants
None == "None"
\* An empty recordset, a missing charge id, a missing or empty string.
NoTx == 0
NoCharge == 0
NoRef == << >>

\* The payment.transaction records: two transactions of the Culqi provider,
\* numbered in creation order (a higher id is a more recent create_date).
TxIds == {1, 2}

\* The references of the two transactions and the references a client sends.
RefS1 == <<"S", "1">>
RefINV71 == <<"I", "N", "V", "-", "7", "-", "1">>
RefINV91 == <<"I", "N", "V", "-", "9", "-", "1">>
NO_REFERENCE == <<"N", "O", "_", "R", "E", "F", "E", "R", "E", "N", "C", "E">>
Reference == [t \in TxIds |-> IF t = 1 THEN RefS1 ELSE RefINV71]
RequestReferences == {RefS1, RefINV71, RefINV91, NO_REFERENCE, NoRef}

\* The amount, in hundredths, and the currency of the two transactions.
Amount == [t \in TxIds |-> IF t = 1 THEN 5000 ELSE 1999]
Currency == [t \in TxIds |-> IF t = 1 THEN "PEN" ELSE "USD"]

\* Outcomes the gateway attaches to a charge: the two types the code tells
\* apart and one other type. Each carries the gateway's code and its message
\* for the merchant.
Outcomes ==
    { [type |-> "venta_exitosa", code |-> "AUT0000",
       merchant_message |-> "La operacion de venta ha sido autorizada."],
      [type |-> "venta_rechazada", code |-> "insufficient_funds",
       merchant_message |-> "La tarjeta no tiene fondos suficientes."],
      [type |-> "pendiente", code |-> None, merchant_message |-> None] }

NoOutcome == [type |-> None, code |-> None, merchant_message |-> None]

ChargeIds == 1..MaxCharges

\* ------------------------------------------------------- string helpers
RECURSIVE IndexOf(_, _, _)
\* Position of the first `sep` in s at or after i, 0 when there is none.
IndexOf(s, sep, i) ==
    IF i > Len(s) THEN 0
    ELSE IF s[i] = sep THEN i
    ELSE IndexOf(s, sep, i + 1)

RECURSIVE Split(_, _)
\* Python's str.split(sep) for a one-character separator.
Split(s, sep) ==
    LET k == IndexOf(s, sep, 1)
    IN  IF k = 0 THEN <<s>>
        ELSE <<SubSeq(s, 1, k - 1)>> \o Split(SubSeq(s, k + 1, Len(s)), sep)

\* Python's `sub in s`.
IsSubstr(sub, s) ==
    \E i \in 0..(Len(s) - Len(sub)) :
        \A j \in 1..Len(sub) : s[i + j] = sub[j]

\* Case folding of one character, as ilike applies it to both sides.
LowerChar(c) ==
    CASE c = "S" -> "s"
      [] c = "I" -> "i"
      [] c = "N" -> "n"
      [] c = "V" -> "v"
      [] c = "O" -> "o"
      [] c = "R" -> "r"
      [] c = "E" -> "e"
      [] c = "F" -> "f"
      [] c = "C" -> "c"
      [] OTHER -> c

Lower(s) == [i \in 1..Len(s) |-> LowerChar(s[i])]

\* The domain term (field, 'ilike', pattern): a case-insensitive substring.
ILike(s, pattern) == IsSubstr(Lower(pattern), Lower(s))

\* int(self.amount * 100) on the binary floating point value of the amount:
\* 19.99 * 100 is 1998.9999999999998 and truncates to 1998.
IntTimes100(amount) ==
    CASE amount = 1999 -> 1998
      [] OTHER -> amount

\* ---------------------------------------------------------------- state
VARIABLES
    tx,               \* payment.transaction records, by id
    charges_created,  \* number of charges the gateway has created, the last id
    charge_requests,  \* per transaction: charge-creation requests sent
    done_transitions, \* per transaction: times it moved into done
    call,             \* the /charges request awaiting its reply, or NoCall
    http,             \* the last response of the webhook route
    raised,           \* the last direct call of a model method raised
    refunds,          \* culqi.refund records, in creation order
    culqi_refunds,    \* how many refunds the gateway has created; the last one's id
    subscriptions,    \* culqi.subscription records, in creation order
    today,            \* fields.Date.today()
    culqi_subscription,  \* the subscription the gateway holds
    cards,            \* culqi.card records, in creation order
    culqi_cards,      \* the cards the gateway holds, by the record they are of
    card_error,       \* the error of the last call on cards, or None
    plans,            \* culqi.plan records, by id
    subscription_ids, \* culqi.subscription records as cards and plans read them
    consecutive_failed   \* failed billing charges since the last successful one

vars == <<tx, charges_created, charge_requests, done_transitions, call, http>>
refund_vars == <<refunds, culqi_refunds>>
subscription_vars ==
    <<subscriptions, today, culqi_subscription, consecutive_failed>>
card_vars == <<cards, culqi_cards, card_error>>
plan_vars == <<plans, subscription_ids>>
other_vars == <<raised, refund_vars, subscription_vars, card_vars, plan_vars>>
all_vars == <<vars, other_vars>>

\* No subscription exists, on the first day of the calendar.
NoSubscriptions ==
    /\ subscriptions = << >>
    /\ today = 1
    /\ culqi_subscription = [state |-> "none", plan_id |-> 0]
    /\ consecutive_failed = 0

\* No card exists, here or at the gateway, and no plan is read.
NoCards ==
    /\ cards = << >>
    /\ culqi_cards = {}
    /\ card_error = None
    /\ plans = << >>
    /\ subscription_ids = << >>

\* ------------------------------------------- payment.transaction (base)
\* The state setters are inherited from the payment module of the framework
\* (version 18.0): each one writes the target state only when the current
\* state is one of its allowed states, and is a logged no-op otherwise.
_update_state(rec, allowed_states, target_state, state_message) ==
    IF rec.state \in allowed_states
    THEN [rec EXCEPT !.state = target_state,
                     !.state_message = state_message]
    ELSE rec

_set_pending(rec, state_message) ==
    _update_state(rec, {"draft"}, "pending", state_message)

_set_done(rec) ==
    _update_state(rec, {"draft", "pending", "authorized", "error"}, "done",
                  [text |-> None, detail |-> None])

_set_error(rec, state_message) ==
    _update_state(rec, {"draft", "pending", "authorized"}, "error", state_message)

\* ------------------------------------------------- payment.transaction
\* Faulty variant of _process_culqi_response: the declined outcome is tested
\* under the name 'sale_declined', which the gateway never sends, so that a
\* declined charge falls through to the pending branch.
_process_culqi_response_misnamed(rec, response) ==
    LET outcome_type == response.outcome.type
        rec1 == [rec EXCEPT !.culqi_charge_id = response.id,
                            !.provider_reference = response.id]
    IN  IF outcome_type = "venta_exitosa" THEN _set_done(rec1)
        ELSE IF outcome_type = "sale_declined"
        THEN _set_error(rec1, [text |-> "Pago rechazado por Culqi.",
                               detail |-> response.outcome.code])
        ELSE _set_pending(rec1, [text |-> "Esperando confirmacion de pago.",
                                 detail |-> outcome_type])

\* Faulty variant of _process_culqi_response: the id of the response is
\* stored as the charge id only, the provider reference is left as it was.
_process_culqi_response_unreferenced(rec, response) ==
    LET outcome_type == response.outcome.type
        rec1 == [rec EXCEPT !.culqi_charge_id = response.id]
    IN  IF outcome_type = "venta_exitosa" THEN _set_done(rec1)
        ELSE IF outcome_type = "venta_rechazada"
        THEN _set_error(rec1, [text |-> "Pago rechazado por Culqi.",
                               detail |-> response.outcome.code])
        ELSE _set_pending(rec1, [text |-> "Esperando confirmacion de pago.",
                                 detail |-> outcome_type])

\* _process_culqi_response: store the charge id, then move the state by the
\* outcome type of the response. The message of a declined charge is the
\* fixed text followed by the outcome's code.
_process_culqi_response(rec, response) ==
    LET outcome_type == response.outcome.type
        outcome_code == response.outcome.code
        rec1 == [rec EXCEPT !.culqi_charge_id = response.id,
                            !.provider_reference = response.id]
    IN  IF outcome_type = "venta_exitosa" THEN _set_done(rec1)
        ELSE IF outcome_type = "venta_rechazada"
        THEN _set_error(rec1, [text |-> "Pago rechazado por Culqi.",
                               detail |-> outcome_code])
        ELSE _set_pending(rec1, [text |-> "Esperando confirmacion de pago.",
                                 detail |-> outcome_type])

\* Faulty variant of _process_notification_data: the successful outcome is
\* tested under the name 'sale_successful', which the gateway never sends.
_process_notification_data_misnamed(rec, notification_data) ==
    LET status == notification_data.outcome.type
        rec1 == [rec EXCEPT !.culqi_charge_id = notification_data.id,
                            !.provider_reference = notification_data.id]
    IN  IF status = "sale_successful" THEN _set_done(rec1)
        ELSE IF status = "venta_rechazada"
        THEN _set_error(rec1, [text |-> "Pago rechazado por Culqi.",
                               detail |-> notification_data.outcome.code])
        ELSE _set_pending(rec1,
                 IF status # None
                 THEN [text |-> "Estado del pago:", detail |-> status]
                 ELSE [text |-> "Estado del pago desconocido", detail |-> None])

\* Faulty variant of _process_notification_data: the last branch writes the
\* state field itself instead of calling _set_pending.
_process_notification_data_unguarded(rec, notification_data) ==
    LET status == notification_data.outcome.type
        rec1 == [rec EXCEPT !.culqi_charge_id = notification_data.id,
                            !.provider_reference = notification_data.id]
    IN  IF status = "venta_exitosa" THEN _set_done(rec1)
        ELSE IF status = "venta_rechazada"
        THEN _set_error(rec1, [text |-> "Pago rechazado por Culqi.",
                               detail |-> notification_data.outcome.code])
        ELSE [rec1 EXCEPT !.state = "pending",
                          !.state_message =
                              [text |-> "Estado del pago:", detail |-> status]]

\* _process_notification_data: the same for a webhook notification.
_process_notification_data(rec, notification_data) ==
    LET status == notification_data.outcome.type
        outcome_code == notification_data.outcome.code
        rec1 == [rec EXCEPT !.culqi_charge_id = notification_data.id,
                            !.provider_reference = notification_data.id]
    IN  IF status = "venta_exitosa" THEN _set_done(rec1)
        ELSE IF status = "venta_rechazada"
        THEN _set_error(rec1, [text |-> "Pago rechazado por Culqi.",
                               detail |-> outcome_code])
        ELSE _set_pending(rec1,
                 IF status # None
                 THEN [text |-> "Estado del pago:", detail |-> status]
                 ELSE [text |-> "Estado del pago desconocido", detail |-> None])

\* search([('reference', '=', reference), ('provider_code', '=', 'culqi')]):
\* references are unique, so the result holds at most one record.
SearchByReference(reference) ==
    {t \in TxIds : Reference[t] = reference}

\* The first record of a search result in the model's default order, id
\* descending (which is also create_date descending), or NoTx.
First(S) ==
    IF S = {} THEN NoTx ELSE CHOOSE t \in S : \A u \in S : u <= t

\* Faulty variant of _get_tx_from_notification_data: when the search by
\* reference finds nothing it falls back on the most recent transaction, as
\* the controllers' own lookups do.
_get_tx_from_notification_data_latest(self_ids, notification_data) ==
    IF Cardinality(self_ids) = 1
    THEN [raised |-> FALSE, tx |-> First(self_ids)]
    ELSE LET found == SearchByReference(notification_data.tx_ref)
         IN  [raised |-> FALSE,
              tx |-> IF found = {} THEN First(TxIds) ELSE First(found)]

\* _get_tx_from_notification_data for provider 'culqi'. self_ids is the
\* recordset the method is called on, which the base method returns as is.
\* The result is the transaction found, or raised for the ValidationError.
_get_tx_from_notification_data(self_ids, notification_data) ==
    IF Cardinality(self_ids) = 1
    THEN [raised |-> FALSE, tx |-> First(self_ids)]
    ELSE LET reference == notification_data.tx_ref
             found == SearchByReference(reference)
         IN  IF found = {}
             THEN [raised |-> TRUE, tx |-> NoTx]
             ELSE [raised |-> FALSE, tx |-> First(found)]

\* ----------------------------------------------------------- bookkeeping
NoCall == [tx |-> NoTx, charge |-> NoCharge]

Requests == charge_requests[1] + charge_requests[2]

\* One more done transition when the record moved into done.
CountDone(t, old, new) ==
    [done_transitions EXCEPT ![t] =
        IF new.state = "done" /\ old.state # "done" THEN @ + 1 ELSE @]

Init ==
    /\ tx = [t \in TxIds |->
                [amount |-> Amount[t],
                 currency |-> Currency[t],
                 state |-> "draft",
                 culqi_charge_id |-> NoCharge,
                 provider_reference |-> NoCharge,
                 culqi_refunded_amount |-> 0,
                 state_message |-> [text |-> None, detail |-> None]]]
    /\ charges_created = 0
    /\ charge_requests = [t \in TxIds |-> 0]
    /\ done_transitions = [t \in TxIds |-> 0]
    /\ call = NoCall
    /\ http = [status |-> 0, note |-> None, tx |-> NoTx, outcome |-> None]
    /\ raised = FALSE
    /\ refunds = << >>
    /\ culqi_refunds = 0
    /\ NoSubscriptions
    /\ NoCards

\* --------------------------------------------------------- gateway client
\* What comes back from a charge-creation request. When the gateway created
\* the charge: a 2xx reply with the charge and its outcome, or a timeout
\* (the reply is lost). When it did not: an HTTP error, or no connection.
GatewayReplies(charge) ==
    IF charge # NoCharge
    THEN [kind : {"ok"}, id : {charge}, outcome : Outcomes]
         \cup {[kind |-> "timeout", id |-> NoCharge, outcome |-> NoOutcome]}
    ELSE [kind : {"http_error", "connection_error"}, id : {NoCharge},
          outcome : {NoOutcome}]

\* _culqi_make_request: the parsed JSON of a 2xx reply; an HTTP error, a
\* timeout and a connection error are all raised as ValidationError.
_culqi_make_request(reply) ==
    IF reply.kind = "ok"
    THEN [raised |-> FALSE, json |-> [id |-> reply.id, outcome |-> reply.outcome]]
    ELSE [raised |-> TRUE, json |-> [id |-> NoCharge, outcome |-> NoOutcome]]

\* Faulty variant of _culqi_charge_request: the request is sent first and
\* the token is looked at afterwards.
_culqi_charge_request_unchecked(t, processing_values, gateway) ==
    [raised |-> processing_values.culqi_token = None,
     requests |-> [gateway.requests EXCEPT ![t] = @ + 1]]

\* The first half of _get_specific_processing_values as a function: whether
\* it raises ValidationError for a missing token, and the requests sent to
\* the gateway when it has raised or has posted the charge.
_culqi_charge_request(t, processing_values, gateway) ==
    IF processing_values.culqi_token = None
    THEN [raised |-> TRUE, requests |-> gateway.requests]
    ELSE [raised |-> FALSE,
          requests |-> [gateway.requests EXCEPT ![t] = @ + 1]]

\* _get_specific_processing_values up to the network call: the token is
\* required, the payload carries the transaction's amount in minor units,
\* its currency and its reference as metadata.tx_ref, and the request is
\* sent. `gateway` is the gateway's count of charges and the requests sent
\* when the method is entered. A missing token raises ValidationError,
\* which the controller turns into an error reply.
_get_specific_processing_values(t, processing_values, gateway) ==
    IF _culqi_charge_request(t, processing_values, gateway).raised
    THEN /\ charges_created' = gateway.created
         /\ charge_requests' =
               _culqi_charge_request(t, processing_values, gateway).requests
         /\ UNCHANGED <<tx, done_transitions, call, http>>
    ELSE /\ gateway.requests[1] + gateway.requests[2] < MaxCharges
         /\ \E created \in BOOLEAN :
            /\ charge_requests' =
                  _culqi_charge_request(t, processing_values, gateway).requests
            /\ charges_created' =
                  IF created THEN gateway.created + 1 ELSE gateway.created
            /\ call' = [tx |-> t,
                        charge |-> IF created THEN charges_created' ELSE NoCharge]
         /\ UNCHANGED <<tx, done_transitions, http>>

\* The entry point both controllers and the tests call. Its definition is
\* not among the sources; the tests fix what it does for a Culqi
\* transaction: it runs _get_specific_processing_values on the values.
_process_direct_payment(t, processing_values, gateway) ==
    _get_specific_processing_values(t, processing_values, gateway)

\* _get_specific_processing_values from the return of the network call: the
\* response is applied to the transaction; a ValidationError of the gateway
\* client is re-raised and the controller turns it into an error reply.
charge_reply(gateway_reply) ==
    /\ call # NoCall
    /\ LET t == call.tx
           reply == _culqi_make_request(gateway_reply)
           new == _process_culqi_response(tx[t], reply.json)
       IN  IF reply.raised
           THEN UNCHANGED <<tx, done_transitions>>
           ELSE /\ tx' = [tx EXCEPT ![t] = new]
                /\ done_transitions' = CountDone(t, tx[t], new)
    /\ call' = NoCall
    /\ UNCHANGED <<charges_created, charge_requests, http>>

\* ------------------------------------------------------------ controllers
ProviderIds == {"culqi", "other", None}
Tokens == {"tkn_live", None}
OpenStates == {"draft", "pending"}
INV_DASH == <<"I", "N", "V", "-">>

\* culqi_confirm_order, step 2: the transaction the confirmation is for.
culqi_confirm_order_tx(reference) ==
    LET found == _get_tx_from_notification_data({}, [tx_ref |-> reference])
        m1 == IF reference # NoRef /\ ~found.raised THEN found.tx ELSE NoTx
        m2 == IF reference # NoRef /\ m1 = NoTx
              THEN First(SearchByReference(reference)) ELSE m1
        parts == Split(reference, "-")
        invoice_id == IF Len(parts) > 2 THEN parts[3] ELSE NoRef
        m3 == IF reference # NoRef /\ m2 = NoTx /\ IsSubstr(INV_DASH, reference)
                 /\ invoice_id # NoRef
              THEN First({t \in TxIds : /\ ILike(Reference[t], invoice_id)
                                        /\ tx[t].state \in OpenStates})
              ELSE m2
    IN  IF m3 = NoTx
        THEN First({t \in TxIds : tx[t].state \in OpenStates})
        ELSE m3

\* culqi_confirm_order: checkout confirmation with a token of the frontend.
culqi_confirm_order(provider_id, token, reference) ==
    /\ call = NoCall
    /\ IF provider_id # "culqi"
       THEN UNCHANGED vars
       ELSE LET t == culqi_confirm_order_tx(reference)
            IN  IF t = NoTx
                THEN UNCHANGED vars
                ELSE _process_direct_payment(t, [culqi_token |-> token],
                         [created |-> charges_created, requests |-> charge_requests])

\* The page the client says it is on, and whether 'invoices' is in its URL.
CurrentUrls == {None, "/my/invoices/7", "/shop/payment"}
HasInvoices(current_url) == current_url = "/my/invoices/7"
RequestAmounts == {0, 5000}

\* The requests of the card form: a complete one for every reference, page
\* and amount, and without a page one complete request and one for each way
\* a field can be missing or wrong.
CardRequests ==
    [provider_id : {"culqi"}, reference : RequestReferences \ {NoRef},
     card_data : {TRUE}, amount : RequestAmounts \ {0},
     current_url : CurrentUrls \ {None}]
    \cup {[provider_id |-> r[1], reference |-> r[2], card_data |-> r[3],
           amount |-> r[4], current_url |-> None] :
             r \in {<<"culqi", RefS1, TRUE, 5000>>,
                    <<None, RefS1, TRUE, 5000>>,
                    <<"other", RefS1, TRUE, 5000>>,
                    <<"culqi", NoRef, TRUE, 5000>>,
                    <<"culqi", RefS1, FALSE, 5000>>,
                    <<"culqi", RefS1, TRUE, 0>>}}

\* culqi_process_card, step 3: the transaction the card payment is for.
culqi_process_card_tx(reference, amount, current_url) ==
    LET named == reference # NoRef /\ reference # NO_REFERENCE
        found == _get_tx_from_notification_data({}, [tx_ref |-> reference])
        m1 == IF named /\ ~found.raised THEN found.tx ELSE NoTx
        m2 == IF m1 = NoTx /\ named
              THEN First(SearchByReference(reference)) ELSE m1
        m3 == IF m2 = NoTx /\ current_url # None /\ HasInvoices(current_url)
              THEN First({t \in TxIds : /\ tx[t].amount = amount
                                        /\ tx[t].state \in OpenStates})
              ELSE m2
    IN  IF m3 = NoTx
        THEN First({t \in TxIds : tx[t].state \in OpenStates})
        ELSE m3

\* culqi_process_card: the server creates the token, posts the charge to the
\* gateway itself (amount of the request, PEN, metadata.order_id) and then
\* processes the transaction.
culqi_process_card(provider_id, reference, card_data, amount, current_url) ==
    /\ call = NoCall
    /\ IF \/ provider_id = None \/ reference = NoRef \/ ~card_data \/ amount = 0
          \/ provider_id # "culqi"
          \/ culqi_process_card_tx(reference, amount, current_url) = NoTx
       THEN UNCHANGED vars
       ELSE LET t == culqi_process_card_tx(reference, amount, current_url)
            IN  \E token_reply \in {"ok", "http_error", "no_id", "timeout"} :
                  IF token_reply # "ok"
                  THEN UNCHANGED vars
                  ELSE /\ Requests < MaxCharges
                       /\ \E status \in {"200", "402", "timeout"},
                             created \in BOOLEAN :
                          /\ status = "200" => created
                          /\ status = "402" => ~created
                          /\ LET created1 == IF created
                                             THEN charges_created + 1
                                             ELSE charges_created
                                 requests1 == [charge_requests EXCEPT ![t] = @ + 1]
                             IN  IF status # "200"
                                 THEN /\ charges_created' = created1
                                      /\ charge_requests' = requests1
                                      /\ UNCHANGED <<tx, done_transitions, call, http>>
                                 ELSE _process_direct_payment(t,
                                          [culqi_token |-> "tkn_server"],
                                          [created |-> created1,
                                           requests |-> requests1])

\* The payload _get_specific_processing_values posts to /charges for the
\* transaction rec with id t.
payload(rec, t) ==
    [amount |-> IntTimes100(rec.amount),
     currency_code |-> rec.currency,
     tx_ref |-> Reference[t]]

\* The charge_data culqi_process_card posts to /v2/charges for the
\* transaction t it found, amount being the amount of the request.
charge_data(t, amount) ==
    [amount |-> amount,
     currency_code |-> "PEN",
     order_id |-> Reference[t]]

\* ---------------------------------------------------------------- webhook
\* A request to the webhook URL: the charge object of the event (id, outcome,
\* metadata.tx_ref), what a check of its signature header against the shared
\* secret would find, and whether the body is JSON at all. The route is
\* public, so any request can arrive; the charge id is missing (NoCharge) or
\* one the gateway has issued.
Signatures == {"valid", "missing", "garbled"}
Notifications ==
    [id : 0..charges_created, outcome : Outcomes,
     tx_ref : {NoRef, RefS1, RefINV71, RefINV91},
     signature : Signatures, body : {"json"}]
    \cup [id : {NoCharge}, outcome : {NoOutcome}, tx_ref : {NoRef},
          signature : Signatures, body : {"garbled"}]

\* _handle_notification_data of the framework, called on the transaction
\* found: look the transaction up again and process the notification.
_handle_notification_data(txs, t, n) ==
    LET found == _get_tx_from_notification_data({t}, n)
    IN  [txs EXCEPT ![found.tx] = _process_notification_data(@, n)]

NoResponse == [status |-> 0, note |-> None, tx |-> NoTx, outcome |-> None]

\* Faulty variant of culqi_webhook_run: the ValidationError of the lookup is
\* not caught by an inner try and reaches the handler that answers 403.
culqi_webhook_run_uncaught(txs, n) ==
    IF n.body # "json"
    THEN [tx |-> txs,
          http |-> [NoResponse EXCEPT !.status = 403, !.note = "forbidden"]]
    ELSE LET found == _get_tx_from_notification_data({}, n)
         IN  IF found.raised
             THEN [tx |-> txs,
                   http |-> [NoResponse EXCEPT !.status = 403,
                                               !.note = "forbidden"]]
             ELSE [tx |-> _handle_notification_data(txs, found.tx, n),
                   http |-> [status |-> 200, note |-> "processed",
                             tx |-> found.tx, outcome |-> n.outcome.type]]

\* culqi_webhook on the transactions txs: parse the body, find the
\* transaction, process the notification. The result is the transactions
\* afterwards and the response: 403 when the body does not parse or
\* processing raises, 200 otherwise, with the line the handler logs
\* (transaction and outcome processed, or no transaction found).
culqi_webhook_run(txs, n) ==
    IF n.body # "json"
    THEN [tx |-> txs,
          http |-> [NoResponse EXCEPT !.status = 403, !.note = "forbidden"]]
    ELSE LET found == _get_tx_from_notification_data({}, n)
             t == IF found.raised THEN NoTx ELSE found.tx
         IN  IF t = NoTx
             THEN [tx |-> txs,
                   http |-> [NoResponse EXCEPT !.status = 200, !.note = "ignored"]]
             ELSE [tx |-> _handle_notification_data(txs, t, n),
                   http |-> [status |-> 200, note |-> "processed", tx |-> t,
                             outcome |-> n.outcome.type]]

\* The webhook route: one request, applied to the database.
culqi_webhook(n) ==
    /\ LET run == culqi_webhook_run(tx, n)
       IN  /\ tx' = run.tx
           /\ http' = run.http
           /\ done_transitions' =
                 [t \in TxIds |-> CountDone(t, tx[t], run.tx[t])[t]]
    /\ UNCHANGED <<charges_created, charge_requests, call>>

\* ------------------------------------------------------------------ spec
\* The controllers answer every request, an exception included, so no call
\* of a model method is left raised.
Next ==
    \/ /\ \E provider_id \in ProviderIds, token \in Tokens,
             reference \in RequestReferences :
             culqi_confirm_order(provider_id, token, reference)
       /\ UNCHANGED other_vars
    \/ /\ \E r \in CardRequests :
             culqi_process_card(r.provider_id, r.reference, r.card_data,
                                r.amount, r.current_url)
       /\ UNCHANGED other_vars
    \/ /\ \E gateway_reply \in GatewayReplies(call.charge) :
             charge_reply(gateway_reply)
       /\ UNCHANGED other_vars
    \/ /\ \E n \in Notifications : culqi_webhook(n)
       /\ UNCHANGED other_vars

Spec == Init /\ [][Next]_all_vars

\* ------------------------------------------- direct calls of the methods
\* The values a test or a caller hands to _process_direct_payment.
ProcessingValues == {[culqi_token |-> "tkn_test_123"], [culqi_token |-> None]}

\* tx._process_direct_payment(processing_values), called on the model.
process_direct_payment(t, processing_values) ==
    /\ call = NoCall
    /\ _process_direct_payment(t, processing_values,
           [created |-> charges_created, requests |-> charge_requests])
    /\ raised' = _culqi_charge_request(t, processing_values,
                     [created |-> charges_created,
                      requests |-> charge_requests]).raised
    /\ UNCHANGED <<refund_vars, subscription_vars, card_vars, plan_vars>>

\* The reply to the request of a direct call; a ValidationError of the
\* gateway client reaches the caller.
direct_charge_reply(gateway_reply) ==
    /\ charge_reply(gateway_reply)
    /\ raised' = _culqi_make_request(gateway_reply).raised
    /\ UNCHANGED <<refund_vars, subscription_vars, card_vars, plan_vars>>

NextDirect ==
    \/ \E t \in TxIds, processing_values \in ProcessingValues :
          process_direct_payment(t, processing_values)
    \/ \E gateway_reply \in GatewayReplies(call.charge) :
          direct_charge_reply(gateway_reply)

SpecDirect == Init /\ [][NextDirect]_all_vars

\* ---------------------------------------------------------------- refunds
\* Number of culqi.refund records, and of refunds the gateway holds.
MaxRefunds == 2

NoRefundId == 0
NoMove == 0
\* amount=None, the default of action_create_refund.
NoAmount == -1

\* The amounts a caller asks to refund: zero, the second transaction's
\* amount, what is left of the first transaction's amount after that, and
\* more than either transaction's amount.
RefundAmounts == {0, 1999, 3001, 6000}

\* The first transaction pays sale order S1, the second pays invoice 7: the
\* invoice_ids of a transaction, and the first out_invoice among them.
invoice_ids(t) == IF t = 2 THEN {7} ELSE {}
Invoice(t) == IF t = 2 THEN 7 ELSE NoMove

\* The account.move that _create_credit_note creates for refund r.
CreditNote(r) == 100 + r

\* amount_total of the sale order and of the invoice a transaction pays.
amount_total(t) == Amount[t]

\* The database the refund methods read and write, and the gateway.
Db == [tx |-> tx, refunds |-> refunds, culqi_refunds |-> culqi_refunds]

RECURSIVE SumAmounts(_, _)
\* sum(records.mapped('amount')) over the records of seq at the indices in S.
SumAmounts(seq, S) ==
    IF S = {} THEN 0
    ELSE LET i == CHOOSE i \in S : TRUE
         IN  seq[i].amount + SumAmounts(seq, S \ {i})

\* refund_data.get('amount', 0) / 100.0 stored in a Monetary field of two
\* decimals: as many hundredths as the notification has cents.
AmountOfCents(cents) == cents

\* culqi.refund._compute_remaining_amount for a refund of transaction t.
_compute_remaining_amount(txs, t) ==
    txs[t].amount - txs[t].culqi_refunded_amount

\* Faulty variant of _check_refund_amount: only the sign is checked.
_check_refund_amount_unbounded(txs, vals) ==
    vals.amount > 0

\* culqi.refund._check_refund_amount: TRUE when no ValidationError is raised.
_check_refund_amount(txs, vals) ==
    /\ ~(vals.amount <= 0)
    /\ ~(vals.amount > _compute_remaining_amount(txs, vals.transaction_id))

\* culqi.refund._check_transaction_state: TRUE when nothing is raised.
_check_transaction_state(txs, vals) ==
    /\ txs[vals.transaction_id].state \in {"done", "authorized"}
    /\ txs[vals.transaction_id].culqi_charge_id # NoCharge

\* culqi.refund.create: the record is appended when both constraints pass;
\* a ValidationError leaves the database as it was.
refund_create(db, vals) ==
    IF _check_refund_amount(db.tx, vals) /\ _check_transaction_state(db.tx, vals)
    THEN [raised |-> FALSE, db |-> [db EXCEPT !.refunds = Append(@, vals)]]
    ELSE [raised |-> TRUE, db |-> db]

\* payment.transaction._compute_can_be_refunded.
_compute_can_be_refunded(txs, t) ==
    /\ txs[t].state \in {"done", "authorized"}
    /\ txs[t].culqi_charge_id # NoCharge
    /\ txs[t].amount > txs[t].culqi_refunded_amount

\* payment.transaction.action_create_refund(amount, reason): the database
\* afterwards, and raised for the UserError or the ValidationError.
action_create_refund_run(db, t, amount) ==
    IF ~_compute_can_be_refunded(db.tx, t)
    THEN [raised |-> TRUE, db |-> db]
    ELSE refund_create(db,
             [transaction_id |-> t,
              amount |-> IF amount = NoAmount
                         THEN db.tx[t].amount - db.tx[t].culqi_refunded_amount
                         ELSE amount,
              state |-> "draft",
              culqi_refund_id |-> NoRefundId,
              refund_type |-> "manual",
              credit_note_id |-> NoMove])

\* culqi.refund._update_parent_transaction for refund r.
_update_parent_transaction(db, r) ==
    LET t == db.refunds[r].transaction_id
        credit_note_id ==
            IF invoice_ids(t) # {} /\ db.refunds[r].credit_note_id = NoMove
            THEN CreditNote(r)
            ELSE db.refunds[r].credit_note_id
    IN  [db EXCEPT !.tx[t].culqi_refunded_amount = @ + db.refunds[r].amount,
                   !.refunds[r].credit_note_id = credit_note_id]

RefundStatuses == {"pending", "processing", "succeeded", "failed", "canceled"}

\* culqi.refund._process_culqi_response for refund r: keep the first refund
\* id, write the state the status maps to, and update the parent transaction
\* when that state is succeeded.
refund_process_culqi_response(db, r, response) ==
    LET new_state == IF response.status \in RefundStatuses
                     THEN response.status ELSE "pending"
        db1 == [db EXCEPT
                  !.refunds[r].culqi_refund_id =
                      IF response.id # NoRefundId /\ @ = NoRefundId
                      THEN response.id ELSE @,
                  !.refunds[r].state = new_state]
    IN  IF new_state = "succeeded"
        THEN _update_parent_transaction(db1, r)
        ELSE db1

\* --------------------------------------------------- gateway (refunds)
\* The statuses the gateway gives a refund in the runs explored.
GatewayStatuses == {"pending", "succeeded", "failed"}

\* What comes back from client.refund.create: the refund object with its
\* status, an error object, or an exception (timeout: nothing reached the
\* gateway).
CreateReplies ==
    [kind : {"refund"}, status : GatewayStatuses]
    \cup [kind : {"error", "timeout"}, status : {None}]

\* provider._get_culqi_client().refund.create(data): the number of refunds
\* the gateway has created afterwards, which is the id of the last one, and
\* the response. The client is defined in no source file.
refund_create_request(gw, reply) ==
    IF reply.kind = "refund"
    THEN [gw |-> gw + 1,
          object |-> "refund",
          id |-> gw + 1,
          status |-> reply.status]
    ELSE [gw |-> gw,
          object |-> IF reply.kind = "timeout" THEN "exception" ELSE "error",
          id |-> NoRefundId,
          status |-> None]

\* culqi.refund.create_in_culqi for refund r: the database and the gateway
\* afterwards, and raised for the UserError. The writes made before the
\* error (state failed) are in the result; whether they survive is the
\* caller's business. requested tells whether client.refund.create was
\* called.
create_in_culqi_run(db, r, reply) ==
    LET rec == db.refunds[r]
    IN  IF rec.culqi_refund_id # NoRefundId \/ rec.state # "draft"
        THEN [raised |-> TRUE, db |-> db, requested |-> FALSE]
        ELSE LET db1 == [db EXCEPT !.refunds[r].state = "pending"]
                 response == refund_create_request(db.culqi_refunds, reply)
                 db2 == [db1 EXCEPT !.culqi_refunds = response.gw]
             IN  IF response.object = "refund"
                 THEN [raised |-> FALSE,
                       db |-> refund_process_culqi_response(db2, r,
                                  [id |-> response.id,
                                   status |-> response.status]),
                       requested |-> TRUE]
                 ELSE [raised |-> TRUE,
                       db |-> [db2 EXCEPT !.refunds[r].state = "failed"],
                       requested |-> TRUE]

\* A call from the web client that raises is rolled back: the records are
\* as before the call, the gateway is not.
Committed(db, run) ==
    IF run.raised
    THEN [db EXCEPT !.culqi_refunds = run.db.culqi_refunds]
    ELSE run.db

\* culqi.refund.action_cancel for refund r.
action_cancel_run(db, r) ==
    IF db.refunds[r].state \notin {"draft", "pending"}
    THEN [raised |-> TRUE, db |-> db]
    ELSE [raised |-> FALSE, db |-> [db EXCEPT !.refunds[r].state = "canceled"]]

\* search([('culqi_refund_id', '=', refund_id)], limit=1) in the order of
\* the model, create_date descending; 0 for the empty recordset.
SearchRefund(rs, refund_id) ==
    LET found == {r \in DOMAIN rs : rs[r].culqi_refund_id = refund_id}
    IN  IF found = {} THEN 0 ELSE CHOOSE r \in found : \A q \in found : q <= r

\* payment.transaction search([('culqi_charge_id', '=', charge_id)], limit=1).
SearchByChargeId(txs, charge_id) ==
    First({t \in TxIds : txs[t].culqi_charge_id = charge_id})

\* Faulty variant of handle_culqi_webhook_refund: the refund is not looked
\* up by its id, a record is created for every notification of a charge.
handle_culqi_webhook_refund_run_blind(db, webhook_data) ==
    LET transaction == SearchByChargeId(db.tx, webhook_data.charge_id)
        made == refund_create(db,
                    [transaction_id |-> transaction,
                     amount |-> AmountOfCents(webhook_data.amount),
                     state |-> "pending",
                     culqi_refund_id |-> webhook_data.id,
                     refund_type |-> "webhook",
                     credit_note_id |-> NoMove])
    IN  IF webhook_data.id = NoRefundId \/ webhook_data.charge_id = NoCharge
           \/ transaction = NoTx
        THEN [raised |-> FALSE, db |-> db, refund |-> 0]
        ELSE IF made.raised
        THEN [raised |-> TRUE, db |-> db, refund |-> 0]
        ELSE [raised |-> FALSE,
              db |-> refund_process_culqi_response(
                         made.db, Len(made.db.refunds), webhook_data),
              refund |-> Len(made.db.refunds)]

\* culqi.refund.handle_culqi_webhook_refund(webhook_data), webhook_data
\* being the refund object under 'data': the database afterwards, the refund
\* returned (0 for none) and raised for the ValidationError of create.
handle_culqi_webhook_refund_run(db, webhook_data) ==
    LET refund_id == webhook_data.id
        refund == SearchRefund(db.refunds, refund_id)
        charge_id == webhook_data.charge_id
        transaction == SearchByChargeId(db.tx, charge_id)
        made == refund_create(db,
                    [transaction_id |-> transaction,
                     amount |-> AmountOfCents(webhook_data.amount),
                     state |-> "pending",
                     culqi_refund_id |-> refund_id,
                     refund_type |-> "webhook",
                     credit_note_id |-> NoMove])
    IN  IF refund_id = NoRefundId
        THEN [raised |-> FALSE, db |-> db, refund |-> 0]
        ELSE IF refund # 0
        THEN [raised |-> FALSE,
              db |-> refund_process_culqi_response(db, refund, webhook_data),
              refund |-> refund]
        ELSE IF charge_id = NoCharge \/ transaction = NoTx
        THEN [raised |-> FALSE, db |-> db, refund |-> 0]
        ELSE IF made.raised
        THEN [raised |-> TRUE, db |-> db, refund |-> 0]
        ELSE [raised |-> FALSE,
              db |-> refund_process_culqi_response(
                         made.db, Len(made.db.refunds), webhook_data),
              refund |-> Len(made.db.refunds)]

\* ------------------------------------------------------ refunds: actions
\* One of the transactions is paid: done, with the charge of its number.
\* The other one is still in draft.
InitRefund ==
    /\ \E paid \in TxIds :
          tx = [t \in TxIds |->
                  [amount |-> Amount[t],
                   currency |-> Currency[t],
                   state |-> IF t = paid THEN "done" ELSE "draft",
                   culqi_charge_id |-> IF t = paid THEN t ELSE NoCharge,
                   provider_reference |-> IF t = paid THEN t ELSE NoCharge,
                   culqi_refunded_amount |-> 0,
                   state_message |-> [text |-> None, detail |-> None]]]
    /\ charges_created = 1
    /\ charge_requests = [t \in TxIds |-> IF tx[t].state = "done" THEN 1 ELSE 0]
    /\ done_transitions = charge_requests
    /\ call = NoCall
    /\ http = NoResponse
    /\ raised = FALSE
    /\ refunds = << >>
    /\ culqi_refunds = 0
    /\ NoSubscriptions
    /\ NoCards

\* The part of the state space that is explored: at most MaxRefunds records
\* and gateway refunds, and a refunded amount that grows only while it is
\* not above the amount of the transaction.
Within(db) ==
    /\ Len(db.refunds) <= MaxRefunds
    /\ db.culqi_refunds <= MaxRefunds
    /\ \A t \in TxIds :
          db.tx[t].culqi_refunded_amount # tx[t].culqi_refunded_amount =>
              tx[t].culqi_refunded_amount <= tx[t].amount

\* The database after a call. Whether the call raised is not kept: the web
\* client shows the error and the scheduler logs it.
Store(db, has_raised) ==
    /\ Within(db)
    /\ tx' = db.tx
    /\ refunds' = db.refunds
    /\ culqi_refunds' = db.culqi_refunds
    /\ UNCHANGED <<raised, charges_created, charge_requests, done_transitions,
                   call, http, subscription_vars, card_vars, plan_vars>>

\* tx.action_create_refund(amount), called from the web client.
action_create_refund(t, amount) ==
    LET run == action_create_refund_run(Db, t, amount)
    IN  Store(Committed(Db, run), run.raised)

\* The button that processes refund r: action_process_refund, which
\* action_submit_for_approval and action_approve end in.
action_process_refund(r, reply) ==
    /\ r \in DOMAIN refunds
    /\ LET run == create_in_culqi_run(Db, r, reply)
       IN  Store(Committed(Db, run), run.raised)

\* The button that cancels refund r.
action_cancel(r) ==
    /\ r \in DOMAIN refunds
    /\ LET run == action_cancel_run(Db, r)
       IN  Store(Committed(Db, run), run.raised)

RECURSIVE process_pending_refunds_run(_, _, _)
\* The loop of process_pending_refunds over the refunds found, most recent
\* first: a refund whose create_in_culqi raises keeps what was written.
process_pending_refunds_run(db, pending_refunds, replies) ==
    IF pending_refunds = {} THEN db
    ELSE LET r == CHOOSE r \in pending_refunds : \A q \in pending_refunds : q <= r
         IN  process_pending_refunds_run(
                 create_in_culqi_run(db, r, replies[r]).db,
                 pending_refunds \ {r}, replies)

\* The scheduler: the draft refunds created more than an hour ago, which is
\* any set of the draft refunds.
process_pending_refunds(pending_refunds, replies) ==
    /\ pending_refunds # {}
    /\ \A r \in pending_refunds : refunds[r].state = "draft"
    /\ Store(process_pending_refunds_run(Db, pending_refunds, replies), FALSE)

\* The charge of the refund with id i: the one of the transaction of the
\* record that holds the id, any charge or none when no record holds it.
ChargesOf(i) ==
    IF \E r \in DOMAIN refunds : refunds[r].culqi_refund_id = i
    THEN {tx[refunds[r].transaction_id].culqi_charge_id :
             r \in {q \in DOMAIN refunds : refunds[q].culqi_refund_id = i}}
    ELSE {NoCharge} \cup TxIds

\* The refund objects that can be notified: a refund the gateway has
\* created, or creates now outside the program, with any status; or an
\* object without an id.
RefundNotifications ==
    UNION {[id : {i}, status : GatewayStatuses, charge_id : ChargesOf(i),
            amount : {1999}] : i \in 1..(culqi_refunds + 1)}
    \cup {[id |-> NoRefundId, status |-> "succeeded", charge_id |-> 1,
           amount |-> 1999]}

\* env['culqi.refund'].handle_culqi_webhook_refund({'data': webhook_data}).
\* A refund created outside the program is counted once a record holds it.
handle_culqi_webhook_refund(webhook_data) ==
    LET run == handle_culqi_webhook_refund_run(Db, webhook_data)
        created == IF Len(run.db.refunds) > Len(refunds)
                      /\ webhook_data.id > culqi_refunds
                   THEN webhook_data.id ELSE culqi_refunds
    IN  Store([Committed(Db, run) EXCEPT !.culqi_refunds = created],
              run.raised)

NextRefund ==
    \/ \E t \in TxIds, amount \in RefundAmounts : action_create_refund(t, amount)
    \/ \E r \in 1..MaxRefunds, reply \in CreateReplies :
          action_process_refund(r, reply)
    \/ \E r \in 1..MaxRefunds : action_cancel(r)
    \/ \E pending_refunds \in SUBSET (DOMAIN refunds) :
          \E replies \in [pending_refunds -> CreateReplies] :
              process_pending_refunds(pending_refunds, replies)
    \/ \E webhook_data \in RefundNotifications :
          handle_culqi_webhook_refund(webhook_data)

SpecRefund == InitRefund /\ [][NextRefund]_all_vars

\* ------------------------------------------- derived payment states
\* sale.order._compute_culqi_transaction for the order of transaction t.
sale_order_culqi_transaction_id(txs, t) ==
    IF txs[t].state \in {"done", "authorized"} THEN t ELSE NoTx

\* account.move._compute_culqi_transaction for the invoice of transaction t.
account_move_culqi_transaction_id(txs, t) ==
    IF txs[t].state = "done" THEN t ELSE NoTx

\* sale.order._compute_culqi_payment_state for the order of transaction t.
sale_order_culqi_payment_state(db, t) ==
    LET refunded_amount == db.tx[t].culqi_refunded_amount
        state == db.tx[t].state
    IN  IF sale_order_culqi_transaction_id(db.tx, t) = NoTx
        THEN "not_applicable"
        ELSE IF refunded_amount > 0
        THEN IF refunded_amount >= amount_total(t)
             THEN "refunded" ELSE "partially_refunded"
        ELSE IF state = "done" THEN "paid"
        ELSE IF state = "authorized" THEN "processing"
        ELSE IF state = "pending" THEN "pending"
        ELSE IF state \in {"error", "cancel"} THEN "failed"
        ELSE "pending"

\* account.move.culqi_refund_ids: the refunds whose credit_note_id is move.
culqi_refund_ids(rs, move) ==
    {r \in DOMAIN rs : rs[r].credit_note_id = move}

\* account.move._compute_culqi_payment_state for the invoice of transaction t.
account_move_culqi_payment_state(db, t) ==
    LET move == Invoice(t)
        successful_refunds ==
            {r \in culqi_refund_ids(db.refunds, move) :
                db.refunds[r].state = "succeeded"}
        total_refunded == SumAmounts(db.refunds, successful_refunds)
        state == db.tx[t].state
    IN  IF account_move_culqi_transaction_id(db.tx, t) = NoTx
        THEN "not_applicable"
        ELSE IF total_refunded > 0
        THEN IF total_refunded >= amount_total(t)
             THEN "refunded" ELSE "partially_refunded"
        ELSE IF state = "done" THEN "paid"
        ELSE IF state = "pending" THEN "pending"
        ELSE IF state = "authorized" THEN "processing"
        ELSE IF state \in {"error", "cancel"} THEN "failed"
        ELSE "pending"

\* culqi_payment_state of the document that transaction t pays.
culqi_payment_state(db, t) ==
    IF invoice_ids(t) # {}
    THEN account_move_culqi_payment_state(db, t)
    ELSE sale_order_culqi_payment_state(db, t)

\* ---------------------------------------------------------- subscriptions
\* Number of billing charges submitted for a subscription in one run.
MaxBillings == 3

\* ------------------------------------------------------------- calendar
\* A date is the number of its day, 1 being 2025-01-01; the calendar covers
\* 2025 and 2026, two years of 365 days. False, the empty date, is 0.
NoDate == 0

DaysInMonth == <<31, 28, 31, 30, 31, 30, 31, 31, 30, 31, 30, 31>>
DaysBeforeMonth == <<0, 31, 59, 90, 120, 151, 181, 212, 243, 273, 304, 334>>

Date(year, month, day) == ((year - 2025) * 365) + DaysBeforeMonth[month] + day
Year(date) == 2025 + ((date - 1) \div 365)
DayOfYear(date) == ((date - 1) % 365) + 1
Month(date) ==
    CHOOSE m \in 1..12 :
        /\ DaysBeforeMonth[m] < DayOfYear(date)
        /\ DayOfYear(date) <= DaysBeforeMonth[m] + DaysInMonth[m]
Day(date) == DayOfYear(date) - DaysBeforeMonth[Month(date)]

\* date + timedelta(days=days).
timedelta(date, days) == date + days

\* date + relativedelta(months=months): the same day of the month that many
\* months later, or the last day of that month when it is shorter.
relativedelta_months(date, months) ==
    LET total == (Month(date) - 1) + months
        year == Year(date) + (total \div 12)
        month == (total % 12) + 1
        day == IF Day(date) > DaysInMonth[month]
               THEN DaysInMonth[month] ELSE Day(date)
    IN  Date(year, month, day)

\* date + relativedelta(years=years); the calendar has no 29th of February.
relativedelta_years(date, years) ==
    Date(Year(date) + years, Month(date), Day(date))

\* The day the run starts, 2025-01-31, and the days the clock is read on
\* afterwards: 2025-02-07, 2025-02-28 and 2025-04-28.
Day0 == Date(2025, 1, 31)
Days == {Date(2025, 2, 7), Date(2025, 2, 28), Date(2025, 4, 28)}

\* ---------------------------------------------------------------- plans
\* culqi.plan records: a monthly plan of 100.00 without trial, and a weekly
\* plan of 25.00 with seven days of trial. Neither has a product, so that
\* no invoice is created for a billing cycle.
PlanIds == {1, 2}
NoPlan == 0
Plan ==
    [p \in PlanIds |->
        IF p = 1
        THEN [amount |-> 10000, interval |-> "months", interval_count |-> 1,
              trial_period_days |-> 0]
        ELSE [amount |-> 2500, interval |-> "weeks", interval_count |-> 1,
              trial_period_days |-> 7]]

\* culqi.plan.get_next_billing_date(start_date) read on the day now.
get_next_billing_date(plan_id, start_date, now) ==
    LET start == IF start_date = NoDate THEN now ELSE start_date
        plan == Plan[plan_id]
    IN  CASE plan.interval = "days" -> timedelta(start, plan.interval_count)
          [] plan.interval = "weeks" -> timedelta(start, 7 * plan.interval_count)
          [] plan.interval = "months" ->
                 relativedelta_months(start, plan.interval_count)
          [] plan.interval = "years" ->
                 relativedelta_years(start, plan.interval_count)
          [] OTHER -> start

\* --------------------------------------------- culqi.subscription fields
NoSubscriptionId == 0

\* culqi.subscription._compute_total_amount, amount being plan_id.amount.
_compute_total_amount(sub) == Plan[sub.plan_id].amount * sub.quantity

\* culqi.subscription._compute_trial_end_date.
_compute_trial_end_date(sub) ==
    IF sub.start_date # NoDate /\ sub.plan_id # NoPlan
       /\ Plan[sub.plan_id].trial_period_days > 0
    THEN timedelta(sub.start_date, Plan[sub.plan_id].trial_period_days)
    ELSE NoDate

\* culqi.subscription._compute_trial_status: the value of in_trial.
_compute_trial_status(sub, now) ==
    IF sub.trial_end_date # NoDate THEN sub.trial_end_date >= now ELSE FALSE

\* culqi.subscription._compute_next_billing_date.
_compute_next_billing_date(sub, now) ==
    IF sub.state \in {"cancelled", "expired"} THEN NoDate
    ELSE IF sub.in_trial /\ sub.trial_end_date # NoDate THEN sub.trial_end_date
    ELSE IF sub.current_period_end # NoDate THEN sub.current_period_end
    ELSE IF sub.plan_id # NoPlan /\ sub.start_date # NoDate
    THEN get_next_billing_date(sub.plan_id,
             IF sub.trial_end_date # NoDate
             THEN sub.trial_end_date ELSE sub.start_date, now)
    ELSE NoDate

\* The stored computed fields after the fields in written were written:
\* each one is recomputed when one of its dependencies was, in_trial and
\* next_billing_date reading the stored values of the others.
Recompute(sub, written, now) ==
    LET trial == written \cap {"start_date", "plan_id"} # {}
        billing == written \cap {"current_period_end", "plan_id",
                                 "start_date"} # {}
        s1 == IF trial
              THEN [sub EXCEPT !.trial_end_date = _compute_trial_end_date(sub)]
              ELSE sub
        s2 == IF trial
              THEN [s1 EXCEPT !.in_trial = _compute_trial_status(s1, now)]
              ELSE s1
    IN  IF billing
        THEN [s2 EXCEPT !.next_billing_date = _compute_next_billing_date(s2, now)]
        ELSE s2

\* culqi.subscription._update_billing_period.
_update_billing_period(sub, now) ==
    LET start_date ==
            IF sub.current_period_end = NoDate
            THEN IF sub.trial_end_date # NoDate /\ sub.trial_end_date >= now
                 THEN sub.trial_end_date ELSE sub.start_date
            ELSE sub.current_period_end
    IN  Recompute(
            [sub EXCEPT !.current_period_start = start_date,
                        !.current_period_end =
                            get_next_billing_date(sub.plan_id, start_date, now)],
            {"current_period_end"}, now)

\* culqi.subscription._check_start_date and _check_quantity: TRUE when no
\* ValidationError is raised.
_check_start_date(sub, now) ==
    ~(sub.start_date # NoDate /\ sub.start_date < now /\ sub.state = "draft")

_check_quantity(sub) == ~(sub.quantity <= 0)

\* culqi.subscription.create(vals): the record with the defaults of its
\* fields and its computed fields, after _update_billing_period.
subscription_create(vals, now) ==
    LET defaults ==
            [state |-> "draft",
             plan_id |-> vals.plan_id,
             quantity |-> vals.quantity,
             start_date |-> vals.start_date,
             trial_end_date |-> NoDate,
             in_trial |-> FALSE,
             current_period_start |-> NoDate,
             current_period_end |-> NoDate,
             next_billing_date |-> NoDate,
             cancelled_date |-> NoDate,
             billing_cycle_count |-> 0,
             successful_charges |-> 0,
             failed_charges |-> 0,
             total_paid |-> 0,
             cancel_at_period_end |-> FALSE,
             culqi_subscription_id |-> NoSubscriptionId]
        created == Recompute(defaults, {"start_date", "plan_id"}, now)
    IN  IF _check_start_date(created, now) /\ _check_quantity(created)
        THEN [raised |-> FALSE, sub |-> _update_billing_period(created, now)]
        ELSE [raised |-> TRUE, sub |-> defaults]

\* ----------------------------------------------- gateway (subscriptions)
\* The id the gateway gives the subscription it creates.
CulqiSubscriptionId == 1

\* What comes back from client.subscription.create and .read: the
\* subscription object, without or with the period the gateway holds; an
\* error object; or an exception. The client is defined in no source file.
SubscriptionReplies ==
    [kind : {"subscription"}, period : BOOLEAN]
    \cup [kind : {"error", "timeout"}, period : {FALSE}]

\* The subscription object of a reply: its period starts on the day of the
\* request and lasts the interval of the plan the gateway holds for it.
SubscriptionObject(gw, reply, now) ==
    [object |-> IF reply.kind = "subscription" THEN "subscription"
                ELSE IF reply.kind = "error" THEN "error" ELSE "exception",
     id |-> CulqiSubscriptionId,
     current_period_start |-> IF reply.period THEN now ELSE NoDate,
     current_period_end |->
         IF reply.period
         THEN get_next_billing_date(gw.plan_id, now, now) ELSE NoDate,
     billing_cycle_count |-> None]

\* What comes back from client.subscription.delete: deleted, an error
\* object, or an exception.
DeleteReplies == {"deleted", "error", "timeout"}

\* What comes back from transaction._create_culqi_charge(source_id): the
\* charge with its outcome, the transaction being done for a successful
\* outcome and in error for a rejected one, or an exception. The method is
\* defined in no source file.
ChargeOutcomes == {"venta_exitosa", "venta_rechazada", "exception"}

_create_culqi_charge(outcome) ==
    CASE outcome = "venta_exitosa" ->
             [raised |-> FALSE, charge_response |-> TRUE, state |-> "done"]
      [] outcome = "venta_rechazada" ->
             [raised |-> FALSE, charge_response |-> TRUE, state |-> "error"]
      [] OTHER ->
             [raised |-> TRUE, charge_response |-> FALSE, state |-> "draft"]

\* ------------------------------------------ culqi.subscription methods
\* culqi.subscription._process_culqi_response.
subscription_process_culqi_response(sub, response) ==
    LET s1 == IF response.id # NoSubscriptionId
                 /\ sub.culqi_subscription_id = NoSubscriptionId
              THEN [sub EXCEPT !.culqi_subscription_id = response.id] ELSE sub
        s2 == IF response.current_period_start # NoDate
              THEN [s1 EXCEPT !.current_period_start = response.current_period_start]
              ELSE s1
        s3 == IF response.current_period_end # NoDate
              THEN [s2 EXCEPT !.current_period_end = response.current_period_end]
              ELSE s2
        s4 == IF response.billing_cycle_count # None
              THEN [s3 EXCEPT !.billing_cycle_count = response.billing_cycle_count]
              ELSE s3
    IN  [sub |-> s4,
         written |-> IF response.current_period_end # NoDate
                     THEN {"current_period_end"} ELSE {}]

\* culqi.subscription._update_subscription_state.
_update_subscription_state(sub) ==
    IF sub.state = "cancelled" THEN sub
    ELSE IF sub.in_trial THEN [sub EXCEPT !.state = "trial"]
    ELSE [sub EXCEPT !.state = "active"]

\* A subscription object is processed, the state is updated and the stored
\* computed fields are recomputed when the records are written.
subscription_synchronise(sub, response, now) ==
    LET processed == subscription_process_culqi_response(sub, response)
    IN  Recompute(_update_subscription_state(processed.sub),
                  processed.written, now)

\* culqi.subscription.create_in_culqi: the record and the gateway
\* afterwards, and raised for the UserError.
subscription_create_in_culqi(sub, gw, reply, now) ==
    IF sub.culqi_subscription_id # NoSubscriptionId
    THEN [raised |-> TRUE, sub |-> sub, gw |-> gw]
    ELSE LET created == IF reply.kind = "subscription"
                        THEN [state |-> "active", plan_id |-> sub.plan_id]
                        ELSE gw
             response == SubscriptionObject(created, reply, now)
         IN  IF response.object = "subscription"
             THEN [raised |-> FALSE,
                   sub |-> subscription_synchronise(sub, response, now),
                   gw |-> created]
             ELSE [raised |-> TRUE, sub |-> sub, gw |-> gw]

\* culqi.subscription.retrieve_from_culqi.
retrieve_from_culqi(sub, gw, reply, now) ==
    IF sub.culqi_subscription_id = NoSubscriptionId
    THEN [raised |-> TRUE, sub |-> sub, gw |-> gw]
    ELSE LET response == SubscriptionObject(gw, reply, now)
         IN  IF response.object = "subscription"
             THEN [raised |-> FALSE,
                   sub |-> subscription_synchronise(sub, response, now),
                   gw |-> gw]
             ELSE [raised |-> TRUE, sub |-> sub, gw |-> gw]

\* Faulty variant of cancel_in_culqi: the record is cancelled before the
\* gateway has answered.
cancel_in_culqi_eager(sub, gw, reply, now) ==
    IF sub.culqi_subscription_id = NoSubscriptionId
       \/ sub.state \in {"cancelled", "expired"}
    THEN [raised |-> TRUE, sub |-> sub, gw |-> gw]
    ELSE [raised |-> reply # "deleted",
          sub |-> [sub EXCEPT !.state = "cancelled", !.cancelled_date = now],
          gw |-> IF reply = "deleted" THEN [gw EXCEPT !.state = "deleted"] ELSE gw]

\* culqi.subscription.cancel_in_culqi: the record and the gateway
\* afterwards, and raised for the UserError.
cancel_in_culqi(sub, gw, reply, now) ==
    IF sub.culqi_subscription_id = NoSubscriptionId
       \/ sub.state \in {"cancelled", "expired"}
    THEN [raised |-> TRUE, sub |-> sub, gw |-> gw]
    ELSE IF reply = "deleted"
    THEN [raised |-> FALSE,
          sub |-> [sub EXCEPT !.state = "cancelled", !.cancelled_date = now],
          gw |-> [gw EXCEPT !.state = "deleted"]]
    ELSE [raised |-> TRUE, sub |-> sub, gw |-> gw]

\* The reference process_billing_cycle gives the payment transaction it
\* creates: the reference of the subscription and the number of the cycle.
transaction_reference(s, sub) == <<s, sub.billing_cycle_count + 1>>

\* Faulty variant of process_billing_cycle: a successful charge is counted
\* but the billing period is not advanced.
process_billing_cycle_unadvanced(sub, outcome, now) ==
    LET charge == _create_culqi_charge(outcome)
    IN  IF sub.state \notin {"active", "trial", "past_due"}
        THEN [success |-> FALSE, charged |-> FALSE, sub |-> sub]
        ELSE IF ~charge.raised /\ charge.charge_response /\ charge.state = "done"
        THEN [success |-> TRUE, charged |-> TRUE,
              sub |-> [sub EXCEPT
                         !.successful_charges = @ + 1,
                         !.total_paid = @ + _compute_total_amount(sub),
                         !.billing_cycle_count = @ + 1]]
        ELSE [success |-> FALSE, charged |-> TRUE,
              sub |-> [sub EXCEPT !.failed_charges = @ + 1,
                                  !.state = "past_due"]]

\* culqi.subscription.process_billing_cycle: what it returns, whether a
\* charge was submitted, and the record afterwards.
process_billing_cycle(sub, outcome, now) ==
    LET charge == _create_culqi_charge(outcome)
    IN  IF sub.state \notin {"active", "trial", "past_due"}
        THEN [success |-> FALSE, charged |-> FALSE, sub |-> sub]
        ELSE IF ~charge.raised /\ charge.charge_response /\ charge.state = "done"
        THEN [success |-> TRUE, charged |-> TRUE,
              sub |-> _update_billing_period(
                         [sub EXCEPT
                            !.successful_charges = @ + 1,
                            !.total_paid = @ + _compute_total_amount(sub),
                            !.billing_cycle_count = @ + 1], now)]
        ELSE [success |-> FALSE, charged |-> TRUE,
              sub |-> [sub EXCEPT !.failed_charges = @ + 1,
                                  !.state = "past_due"]]

\* culqi.subscription.action_reactivate, the card being active: the record
\* afterwards, whether a charge was submitted and how it ended, and raised
\* for the UserError.
action_reactivate_run(sub, outcome, now) ==
    IF sub.state \notin {"past_due", "cancelled", "unpaid"}
    THEN [raised |-> TRUE, charged |-> FALSE, success |-> FALSE, sub |-> sub]
    ELSE LET run == process_billing_cycle(sub, outcome, now)
         IN  IF run.success
             THEN [raised |-> FALSE, charged |-> TRUE, success |-> TRUE,
                   sub |-> [run.sub EXCEPT !.state = "active",
                                           !.cancel_at_period_end = FALSE]]
             ELSE [raised |-> TRUE, charged |-> run.charged,
                   success |-> FALSE, sub |-> run.sub]

\* The part of process_scheduled_billing that bills one subscription.
scheduled_billing(sub, outcome, now) ==
    IF /\ sub.state \in {"active", "trial"}
       /\ sub.next_billing_date # NoDate
       /\ sub.next_billing_date <= now
       /\ ~sub.cancel_at_period_end
    THEN process_billing_cycle(
             IF sub.state = "trial" /\ ~sub.in_trial
             THEN [sub EXCEPT !.state = "active"] ELSE sub,
             outcome, now)
    ELSE [success |-> FALSE, charged |-> FALSE, sub |-> sub]

\* The part of process_scheduled_billing that cancels one subscription
\* whose cancellation was deferred; an exception is logged.
scheduled_cancellation(sub, gw, reply, now) ==
    IF /\ sub.cancel_at_period_end
       /\ sub.current_period_end # NoDate
       /\ sub.current_period_end <= now
    THEN cancel_in_culqi(sub, gw, reply, now)
    ELSE [raised |-> FALSE, sub |-> sub, gw |-> gw]

\* culqi.subscription.process_scheduled_billing for one subscription.
process_scheduled_billing_run(sub, gw, outcome, reply, now) ==
    LET billed == scheduled_billing(sub, outcome, now)
        cancelled == scheduled_cancellation(billed.sub, gw, reply, now)
    IN  [success |-> billed.success, charged |-> billed.charged,
         sub |-> cancelled.sub, gw |-> cancelled.gw]

\* Faulty variant of cleanup_failed_subscriptions: one failed charge is
\* enough for a subscription to expire.
cleanup_failed_subscriptions_hasty(sub, now) ==
    IF /\ sub.state = "past_due"
       /\ sub.failed_charges >= 1
       /\ sub.next_billing_date # NoDate
       /\ sub.next_billing_date < timedelta(now, -30)
    THEN [sub EXCEPT !.state = "expired"]
    ELSE sub

\* culqi.subscription.cleanup_failed_subscriptions for one subscription.
cleanup_failed_subscriptions_run(sub, now) ==
    IF /\ sub.state = "past_due"
       /\ sub.failed_charges >= 3
       /\ sub.next_billing_date # NoDate
       /\ sub.next_billing_date < timedelta(now, -30)
    THEN [sub EXCEPT !.state = "expired"]
    ELSE sub

\* culqi.subscription.unlink: whether the record is deleted, the gateway
\* afterwards, and raised for the UserError.
unlink_run(sub, gw, reply, now) ==
    IF sub.state = "active"
    THEN [raised |-> TRUE, deleted |-> FALSE, gw |-> gw]
    ELSE IF sub.culqi_subscription_id # NoSubscriptionId
            /\ sub.state \notin {"cancelled", "expired"}
    THEN [raised |-> FALSE, deleted |-> TRUE,
          gw |-> cancel_in_culqi(sub, gw, reply, now).gw]
    ELSE [raised |-> FALSE, deleted |-> TRUE, gw |-> gw]

\* The change wizard's _change_plan without proration: plan_id is written
\* and the stored computed fields that depend on it are recomputed.
_change_plan(sub, new_plan_id, now) ==
    Recompute([sub EXCEPT !.plan_id = new_plan_id], {"plan_id"}, now)

\* The change wizard's _create_proration_transaction(amount): a positive
\* amount is charged, for any other amount nothing is done.
_create_proration_transaction(amount) ==
    IF amount > 0 THEN "charge" ELSE "none"

\* The change wizard's _process_plan_proration after the plan was written:
\* the proration amount in hundredths, rounded down, and what is done with
\* it. An amount of 0.01 or less in absolute value is not processed.
_process_plan_proration(sub, old_plan, new_plan, now) ==
    LET period_end == sub.current_period_end
        days_remaining == period_end - now
        total_days_in_period == period_end - sub.current_period_start
        difference ==
            (Plan[new_plan].amount - Plan[old_plan].amount) * days_remaining
        proration_amount == difference \div total_days_in_period
    IN  IF period_end = NoDate \/ period_end <= now
        THEN [amount |-> 0, done |-> "none"]
        ELSE IF total_days_in_period <= 0
        THEN [amount |-> 0, done |-> "none"]
        ELSE IF difference > total_days_in_period
                \/ (-difference) > total_days_in_period
        THEN [amount |-> proration_amount,
              done |-> _create_proration_transaction(proration_amount)]
        ELSE [amount |-> proration_amount, done |-> "none"]

\* The change wizard's action_apply_changes with change_type 'plan': the
\* record afterwards, and raised for the UserError.
action_apply_changes_run(sub, new_plan_id, prorate_change, outcome, now) ==
    LET changed == _change_plan(sub, new_plan_id, now)
    IN  IF /\ prorate_change
           /\ _process_plan_proration(changed, sub.plan_id, new_plan_id,
                                      now).done = "charge"
           /\ _create_culqi_charge(outcome).raised
        THEN [raised |-> TRUE, sub |-> changed]
        ELSE [raised |-> FALSE, sub |-> changed]

\* ------------------------------------------------ subscriptions: actions
\* No subscription exists yet, on 2025-01-31; no payment was started.
InitSubscription ==
    /\ tx = [t \in TxIds |->
                [amount |-> Amount[t],
                 currency |-> Currency[t],
                 state |-> "draft",
                 culqi_charge_id |-> NoCharge,
                 provider_reference |-> NoCharge,
                 culqi_refunded_amount |-> 0,
                 state_message |-> [text |-> None, detail |-> None]]]
    /\ charges_created = 0
    /\ charge_requests = [t \in TxIds |-> 0]
    /\ done_transitions = [t \in TxIds |-> 0]
    /\ call = NoCall
    /\ http = [status |-> 0, note |-> None, tx |-> NoTx, outcome |-> None]
    /\ raised = FALSE
    /\ refunds = << >>
    /\ culqi_refunds = 0
    /\ subscriptions = << >>
    /\ today = Day0
    /\ culqi_subscription = [state |-> "none", plan_id |-> NoPlan]
    /\ consecutive_failed = 0
    /\ NoCards

\* The failed billing charges in a row after a run of process_billing_cycle.
ConsecutiveFailed(run) ==
    IF ~run.charged THEN consecutive_failed
    ELSE IF run.success THEN 0
    ELSE consecutive_failed + 1

\* The records and the gateway after a call on the subscription; at most
\* MaxBillings billing charges are counted.
StoreSubscription(subs, gw, failed) ==
    /\ failed <= MaxBillings
    /\ \A s \in DOMAIN subs :
          subs[s].successful_charges + subs[s].failed_charges <= MaxBillings
    /\ subscriptions' = subs
    /\ culqi_subscription' = gw
    /\ consecutive_failed' = failed
    /\ UNCHANGED <<vars, raised, refund_vars, today, card_vars, plan_vars>>

\* What the creation wizard is filled with: one monthly plan, or two weekly
\* plans.
Wizards == {[plan_id |-> 1, quantity |-> 1], [plan_id |-> 2, quantity |-> 2]}

\* The wizard's _create_subscription_record: culqi.subscription.create with
\* the plan, the quantity and the start date of the wizard, today.
create(plan_id, quantity) ==
    /\ subscriptions = << >>
    /\ culqi_subscription.state = "none"
    /\ today = Day0
    /\ LET run == subscription_create(
                      [plan_id |-> plan_id, quantity |-> quantity,
                       start_date |-> today], today)
       IN  /\ ~run.raised
           /\ StoreSubscription(<<run.sub>>, culqi_subscription,
                                consecutive_failed)

\* The button action_create_in_culqi; a UserError rolls the call back.
action_create_in_culqi(reply) ==
    /\ subscriptions # << >>
    /\ LET run == subscription_create_in_culqi(subscriptions[1],
                      culqi_subscription, reply, today)
       IN  /\ ~run.raised
           /\ StoreSubscription(<<run.sub>>, run.gw, consecutive_failed)

\* The button action_sync_from_culqi; a UserError rolls the call back.
action_sync_from_culqi(reply) ==
    /\ subscriptions # << >>
    /\ LET run == retrieve_from_culqi(subscriptions[1], culqi_subscription,
                                      reply, today)
       IN  /\ ~run.raised
           /\ StoreSubscription(<<run.sub>>, run.gw, consecutive_failed)

\* The button action_process_billing_cycle.
action_process_billing_cycle(outcome) ==
    /\ subscriptions # << >>
    /\ LET run == process_billing_cycle(subscriptions[1], outcome, today)
       IN  StoreSubscription(<<run.sub>>, culqi_subscription,
                             ConsecutiveFailed(run))

\* The button action_reactivate; a UserError rolls the writes back, the
\* charge that failed stays a failed charge.
action_reactivate(outcome) ==
    /\ subscriptions # << >>
    /\ LET run == action_reactivate_run(subscriptions[1], outcome, today)
       IN  StoreSubscription(
               IF run.raised THEN subscriptions ELSE <<run.sub>>,
               culqi_subscription, ConsecutiveFailed(run))

\* The scheduler's process_scheduled_billing.
process_scheduled_billing(outcome, reply) ==
    /\ subscriptions # << >>
    /\ LET run == process_scheduled_billing_run(subscriptions[1],
                      culqi_subscription, outcome, reply, today)
       IN  StoreSubscription(<<run.sub>>, run.gw, ConsecutiveFailed(run))

\* The scheduler's cleanup_failed_subscriptions.
cleanup_failed_subscriptions ==
    /\ subscriptions # << >>
    /\ StoreSubscription(
           <<cleanup_failed_subscriptions_run(subscriptions[1], today)>>,
           culqi_subscription, consecutive_failed)

\* The button action_cancel_immediate; a UserError rolls the call back.
action_cancel_immediate(reply) ==
    /\ subscriptions # << >>
    /\ LET run == cancel_in_culqi(subscriptions[1], culqi_subscription,
                                  reply, today)
       IN  /\ ~run.raised
           /\ StoreSubscription(<<run.sub>>, run.gw, consecutive_failed)

\* The button action_cancel_at_period_end.
action_cancel_at_period_end ==
    /\ subscriptions # << >>
    /\ StoreSubscription(
           <<[subscriptions[1] EXCEPT !.cancel_at_period_end = TRUE]>>,
           culqi_subscription, consecutive_failed)

\* culqi.subscription.unlink.
unlink(reply) ==
    /\ subscriptions # << >>
    /\ LET run == unlink_run(subscriptions[1], culqi_subscription, reply, today)
       IN  /\ run.deleted
           /\ StoreSubscription(<< >>, run.gw, consecutive_failed)

\* The change wizard's action_apply_changes with change_type 'plan'.
action_apply_changes(new_plan_id, prorate_change, outcome) ==
    /\ subscriptions # << >>
    /\ new_plan_id # subscriptions[1].plan_id
    /\ subscriptions[1].plan_id = culqi_subscription.plan_id
    /\ LET run == action_apply_changes_run(subscriptions[1], new_plan_id,
                      prorate_change, outcome, today)
       IN  /\ ~run.raised
           /\ StoreSubscription(<<run.sub>>, culqi_subscription,
                                consecutive_failed)

\* The form of the subscription is read: trial_days_remaining is computed
\* by _compute_trial_status, which assigns in_trial as well.
read_trial_days_remaining ==
    /\ subscriptions # << >>
    /\ StoreSubscription(
           <<[subscriptions[1] EXCEPT
                !.in_trial = _compute_trial_status(subscriptions[1], today)]>>,
           culqi_subscription, consecutive_failed)

\* A later day.
tick(day) ==
    /\ day > today
    /\ today' = day
    /\ UNCHANGED <<vars, raised, refund_vars, subscriptions,
                   culqi_subscription, consecutive_failed, card_vars,
                   plan_vars>>

NextSubscription ==
    \/ \E vals \in Wizards : create(vals.plan_id, vals.quantity)
    \/ \E reply \in SubscriptionReplies : action_create_in_culqi(reply)
    \/ \E reply \in SubscriptionReplies : action_sync_from_culqi(reply)
    \/ \E outcome \in ChargeOutcomes : action_process_billing_cycle(outcome)
    \/ \E outcome \in ChargeOutcomes : action_reactivate(outcome)
    \/ \E outcome \in ChargeOutcomes, reply \in DeleteReplies :
          process_scheduled_billing(outcome, reply)
    \/ cleanup_failed_subscriptions
    \/ \E reply \in DeleteReplies : action_cancel_immediate(reply)
    \/ action_cancel_at_period_end
    \/ \E reply \in DeleteReplies : unlink(reply)
    \/ \E new_plan_id \in PlanIds, prorate_change \in BOOLEAN,
          outcome \in ChargeOutcomes :
          action_apply_changes(new_plan_id, prorate_change, outcome)
    \/ read_trial_days_remaining
    \/ \E day \in Days : tick(day)

SpecSubscription == InitSubscription /\ [][NextSubscription]_all_vars

\* ------------------------------------------------------------ culqi.card
\* The most card records explored, and the most subscriptions that cards
\* and plans read.
MaxCards == 2
MaxSubscriptionIds == 1

CustomerIds == {1, 2}
NoCustomer == 0
NoCardId == 0

\* The row of a deleted card: no search finds it.
NoCard ==
    [customer_id |-> NoCustomer, is_default |-> FALSE, state |-> "draft",
     culqi_card_id |-> NoCardId]

\* The states of the subscriptions that pay with a card.
SubscriptionStates == {"draft", "active", "cancelled"}

\* The UserError of delete_from_culqi and unlink for a card with active
\* subscriptions.
ConActivas == "No se puede eliminar una tarjeta con suscripciones activas"

\* The records a call on cards works on, and the gateway.
CardDb ==
    [cards |-> cards, culqi_cards |-> culqi_cards,
     subscription_ids |-> subscription_ids]

\* The cards that exist.
CardIds(db) == {c \in DOMAIN db.cards : db.cards[c] # NoCard}

\* search([('customer_id', '=', card.customer_id.id), ('id', '!=', card.id)])
other_cards(db, c) ==
    {o \in CardIds(db) :
        o # c /\ db.cards[o].customer_id = db.cards[c].customer_id}

\* card.subscription_ids.filtered(lambda s: s.state == 'active')
active_subscriptions(db, c) ==
    {s \in DOMAIN db.subscription_ids :
        /\ db.subscription_ids[s].card_id = c
        /\ db.subscription_ids[s].state = "active"}

\* The subscriptions whose required card_id is the card: the database
\* refuses to delete the card while one of them exists.
card_subscription_ids(db, c) ==
    {s \in DOMAIN db.subscription_ids : db.subscription_ids[s].card_id = c}

\* _check_single_default over the cards ids: no card among them is the
\* default while another card of its customer is.
_check_single_default(db, ids) ==
    \A c \in ids :
        db.cards[c].is_default =>
            ~\E o \in other_cards(db, c) : db.cards[o].is_default

\* What a call returns: whether it raised, with which error, and the records
\* and the gateway afterwards.
CardDone(db) == [raised |-> FALSE, error |-> None, db |-> db]
CardRaised(db, error) == [raised |-> TRUE, error |-> error, db |-> db]

\* culqi.card.create(vals): the record with the defaults of its fields; the
\* constraint is checked on the new record.
card_create_run(db, vals) ==
    LET c == Len(db.cards) + 1
        rec == [customer_id |-> vals.customer_id,
                is_default |-> vals.is_default,
                state |-> "draft",
                culqi_card_id |-> NoCardId]
        db1 == [db EXCEPT !.cards = Append(@, rec)]
    IN  IF _check_single_default(db1, {c})
        THEN CardDone(db1)
        ELSE CardRaised(db1, "Solo puede haber una tarjeta por defecto por cliente")

\* What write is called with: the fields vals holds, among is_default and
\* customer_id, and their values.
CardVals ==
    [fields : SUBSET {"is_default", "customer_id"},
     is_default : BOOLEAN, customer_id : CustomerIds]

\* The field values of a record after super().write(vals).
CardWritten(rec, vals) ==
    [rec EXCEPT
       !.is_default = IF "is_default" \in vals.fields
                      THEN vals.is_default ELSE @,
       !.customer_id = IF "customer_id" \in vals.fields
                       THEN vals.customer_id ELSE @]

\* Faulty variant of ClearedByWrite: write clears nothing.
ClearedByWrite_none(db, ids, vals) ==
    {}

\* The cards that write clears the default of: when vals marks the default,
\* the other cards of the customer of each card written, as the customers
\* are before the write.
ClearedByWrite(db, ids, vals) ==
    IF "is_default" \in vals.fields /\ vals.is_default
    THEN UNION {other_cards(db, c) : c \in ids}
    ELSE {}

\* culqi.card.write(vals) on the cards ids: the default of the other cards is
\* cleared first, then the values are written, then the constraint is
\* checked on the cards written when vals holds one of its fields.
card_write_run(db, ids, vals) ==
    LET cleared == ClearedByWrite(db, ids, vals)
        db1 == [db EXCEPT !.cards =
                  [c \in DOMAIN @ |->
                     IF c \in cleared THEN [@[c] EXCEPT !.is_default = FALSE]
                     ELSE @[c]]]
        db2 == [db1 EXCEPT !.cards =
                  [c \in DOMAIN @ |->
                     IF c \in ids THEN CardWritten(@[c], vals) ELSE @[c]]]
    IN  IF vals.fields = {} \/ _check_single_default(db2, ids)
        THEN CardDone(db2)
        ELSE CardRaised(db2, "Solo puede haber una tarjeta por defecto por cliente")

\* action_set_as_default: the default of the other cards of the customer is
\* cleared, then is_default is written on the card.
action_set_as_default_run(db, c) ==
    LET db1 == card_write_run(db, other_cards(db, c),
                   [fields |-> {"is_default"}, is_default |-> FALSE,
                    customer_id |-> db.cards[c].customer_id]).db
    IN  card_write_run(db1, {c},
            [fields |-> {"is_default"}, is_default |-> TRUE,
             customer_id |-> db.cards[c].customer_id])

\* action_deactivate.
action_deactivate_run(db, c) ==
    IF active_subscriptions(db, c) # {}
    THEN CardRaised(db, "No se puede desactivar una tarjeta con suscripciones activas")
    ELSE CardDone([db EXCEPT !.cards[c].state = "inactive",
                             !.cards[c].is_default = FALSE])

\* What comes back from client.card.create and client.card.delete. The
\* client is defined in no source file.
CardCreateReplies == {"card", "error"}
CardDeleteReplies == {"deleted", "error"}

\* create_in_culqi(token_id): the gateway creates the card and the record
\* takes its id and becomes active. The customer is one the gateway holds.
card_create_in_culqi_run(db, c, reply) ==
    IF db.cards[c].culqi_card_id # NoCardId
    THEN CardRaised(db, "La tarjeta ya esta creada en Culqi")
    ELSE IF reply = "card"
    THEN CardDone([db EXCEPT !.cards[c].culqi_card_id = c,
                             !.cards[c].state = "active",
                             !.culqi_cards = @ \cup {c}])
    ELSE CardRaised(db, "Error de Culqi")

\* Faulty variant of delete_from_culqi: the subscriptions are not looked at.
delete_from_culqi_run_unchecked(db, c, reply) ==
    IF db.cards[c].culqi_card_id = NoCardId
    THEN CardRaised(db, "La tarjeta no esta creada en Culqi")
    ELSE IF reply = "deleted"
    THEN CardDone([db EXCEPT !.cards[c].state = "inactive",
                             !.culqi_cards = @ \ {db.cards[c].culqi_card_id}])
    ELSE CardRaised(db, "Error de Culqi")

\* delete_from_culqi: refused for a card the gateway was not given and for a
\* card with an active subscription; otherwise the gateway deletes the card
\* and the record becomes inactive.
delete_from_culqi_run(db, c, reply) ==
    IF db.cards[c].culqi_card_id = NoCardId
    THEN CardRaised(db, "La tarjeta no esta creada en Culqi")
    ELSE IF active_subscriptions(db, c) # {}
    THEN CardRaised(db, ConActivas)
    ELSE IF reply = "deleted"
    THEN CardDone([db EXCEPT !.cards[c].state = "inactive",
                             !.culqi_cards = @ \ {db.cards[c].culqi_card_id}])
    ELSE CardRaised(db, "Error de Culqi")

RECURSIVE card_unlink_loop(_, _, _)
\* The loop of unlink over the cards, in the order of their ids: a card with
\* an active subscription raises; a card the gateway holds is deleted there,
\* and an error of that deletion is logged only.
card_unlink_loop(db, ids, replies) ==
    IF ids = {} THEN CardDone(db)
    ELSE LET c == CHOOSE c \in ids : \A o \in ids : c <= o
             deleted == delete_from_culqi_run(db, c, replies[c])
             db1 == IF /\ db.cards[c].culqi_card_id # NoCardId
                       /\ db.cards[c].state # "inactive"
                       /\ ~deleted.raised
                    THEN deleted.db ELSE db
         IN  IF active_subscriptions(db, c) # {}
             THEN CardRaised(db, ConActivas)
             ELSE card_unlink_loop(db1, ids \ {c}, replies)

\* culqi.card.unlink on the cards ids: the loop, then the rows are deleted,
\* which the database refuses while a subscription holds one of the cards.
card_unlink_run(db, ids, replies) ==
    LET loop == card_unlink_loop(db, ids, replies)
    IN  IF loop.raised THEN loop
        ELSE IF \E c \in ids : card_subscription_ids(loop.db, c) # {}
        THEN CardRaised(loop.db, "IntegrityError")
        ELSE CardDone([loop.db EXCEPT !.cards =
                         [c \in DOMAIN @ |->
                            IF c \in ids THEN NoCard ELSE @[c]]])

\* A call that raises is rolled back: the records are as before the call,
\* the gateway is not.
CardCommitted(db, run) ==
    [raised |-> run.raised,
     error |-> run.error,
     db |-> IF run.raised
            THEN [db EXCEPT !.culqi_cards = run.db.culqi_cards]
            ELSE run.db]

\* The route /my/payment_methods/<card_id>/delete: refused for a card with an
\* active subscription; otherwise delete_from_culqi for a card the gateway
\* was given, then unlink. An exception becomes the reply {'success': False};
\* the one of the database leaves nothing written.
portal_delete_payment_method_run(db, c, reply) ==
    IF active_subscriptions(db, c) # {}
    THEN CardRaised(db, ConActivas)
    ELSE LET deleted == IF db.cards[c].culqi_card_id # NoCardId
                        THEN delete_from_culqi_run(db, c, reply)
                        ELSE CardDone(db)
         IN  IF deleted.raised THEN deleted
             ELSE CardCommitted(db,
                      card_unlink_run(deleted.db, {c}, [o \in {c} |-> reply]))

\* --------------------------------------------------------- spec (cards)
InitCard ==
    /\ tx = [t \in TxIds |->
                [amount |-> Amount[t],
                 currency |-> Currency[t],
                 state |-> "draft",
                 culqi_charge_id |-> NoCharge,
                 provider_reference |-> NoCharge,
                 culqi_refunded_amount |-> 0,
                 state_message |-> [text |-> None, detail |-> None]]]
    /\ charges_created = 0
    /\ charge_requests = [t \in TxIds |-> 0]
    /\ done_transitions = [t \in TxIds |-> 0]
    /\ call = NoCall
    /\ http = [status |-> 0, note |-> None, tx |-> NoTx, outcome |-> None]
    /\ raised = FALSE
    /\ refunds = << >>
    /\ culqi_refunds = 0
    /\ NoSubscriptions
    /\ NoCards

\* The records, the gateway and the error after a call on cards; at most
\* MaxCards cards are created.
StoreCard(run) ==
    /\ Len(run.db.cards) <= MaxCards
    /\ cards' = run.db.cards
    /\ culqi_cards' = run.db.culqi_cards
    /\ subscription_ids' = run.db.subscription_ids
    /\ card_error' = run.error
    /\ UNCHANGED <<vars, raised, refund_vars, subscription_vars, plans>>

\* culqi.card.create(vals) from the web client.
card_create(vals) ==
    StoreCard(CardCommitted(CardDb, card_create_run(CardDb, vals)))

\* The route /my/payment_methods/save: create, then create_in_culqi. An
\* exception becomes the reply {'success': False} and the card created stays.
portal_save_payment_method(customer_id, reply) ==
    LET created == card_create_run(CardDb,
                       [customer_id |-> customer_id, is_default |-> FALSE])
        sent == card_create_in_culqi_run(created.db, Len(created.db.cards), reply)
    IN  StoreCard(sent)

\* culqi.card.write(vals) on the cards ids from the web client.
card_write(ids, vals) ==
    /\ ids # {}
    /\ ids \subseteq CardIds(CardDb)
    /\ StoreCard(CardCommitted(CardDb, card_write_run(CardDb, ids, vals)))

\* The button and the route that make card c the default.
action_set_as_default(c) ==
    /\ c \in CardIds(CardDb)
    /\ StoreCard(CardCommitted(CardDb, action_set_as_default_run(CardDb, c)))

\* The button that deactivates card c.
action_deactivate(c) ==
    /\ c \in CardIds(CardDb)
    /\ StoreCard(CardCommitted(CardDb, action_deactivate_run(CardDb, c)))

\* The button that deletes card c at the gateway.
action_delete_from_culqi(c, reply) ==
    /\ c \in CardIds(CardDb)
    /\ StoreCard(CardCommitted(CardDb, delete_from_culqi_run(CardDb, c, reply)))

\* culqi.card.unlink on the cards ids from the web client.
card_unlink(ids, replies) ==
    /\ ids # {}
    /\ ids \subseteq CardIds(CardDb)
    /\ StoreCard(CardCommitted(CardDb, card_unlink_run(CardDb, ids, replies)))

\* The route that deletes card c.
portal_delete_payment_method(c, reply) ==
    /\ c \in CardIds(CardDb)
    /\ StoreCard(portal_delete_payment_method_run(CardDb, c, reply))

\* A subscription that pays with card c is created, with the first plan.
card_subscribe(c) ==
    /\ c \in CardIds(CardDb)
    /\ Len(subscription_ids) < MaxSubscriptionIds
    /\ subscription_ids' =
          Append(subscription_ids,
                 [card_id |-> c, plan_id |-> 1, state |-> "draft"])
    /\ UNCHANGED <<vars, raised, refund_vars, subscription_vars, card_vars,
                   plans>>

\* Subscription s moves to another state by its own operations.
card_subscription_state(s, state) ==
    /\ s \in DOMAIN subscription_ids
    /\ subscription_ids[s].state # state
    /\ subscription_ids' = [subscription_ids EXCEPT ![s].state = state]
    /\ UNCHANGED <<vars, raised, refund_vars, subscription_vars, card_vars,
                   plans>>

NextCard ==
    \/ \E customer_id \in CustomerIds, is_default \in BOOLEAN :
          card_create([customer_id |-> customer_id, is_default |-> is_default])
    \/ \E customer_id \in CustomerIds, reply \in CardCreateReplies :
          portal_save_payment_method(customer_id, reply)
    \/ \E ids \in SUBSET (DOMAIN cards), vals \in CardVals :
          card_write(ids, vals)
    \/ \E c \in DOMAIN cards : action_set_as_default(c)
    \/ \E c \in DOMAIN cards : action_deactivate(c)
    \/ \E c \in DOMAIN cards, reply \in CardDeleteReplies :
          action_delete_from_culqi(c, reply)
    \/ \E ids \in SUBSET (DOMAIN cards) :
          \E replies \in [ids -> CardDeleteReplies] : card_unlink(ids, replies)
    \/ \E c \in DOMAIN cards, reply \in CardDeleteReplies :
          portal_delete_payment_method(c, reply)
    \/ \E c \in DOMAIN cards : card_subscribe(c)
    \/ \E s \in DOMAIN subscription_ids, state \in SubscriptionStates :
          card_subscription_state(s, state)

SpecCard == InitCard /\ [][NextCard]_all_vars

\* ------------------------------------------------------------ culqi.plan
\* The row of a deleted plan.
NoPlanRecord ==
    [amount |-> 0, interval |-> None, interval_count |-> 0,
     trial_period_days |-> 0, is_synced |-> FALSE]

\* The plans of the catalogue as records that the gateway holds.
PlanRecords ==
    [p \in PlanIds |->
        [amount |-> Plan[p].amount,
         interval |-> Plan[p].interval,
         interval_count |-> Plan[p].interval_count,
         trial_period_days |-> Plan[p].trial_period_days,
         is_synced |-> TRUE]]

\* The records a call on plans works on.
PlanDb == [plans |-> plans, subscription_ids |-> subscription_ids]

\* plan.subscription_ids
plan_subscription_ids(db, p) ==
    {s \in DOMAIN db.subscription_ids : db.subscription_ids[s].plan_id = p}

\* What write is called with: the fields vals holds, among amount, interval
\* and trial_period_days, and their values.
PlanVals ==
    [fields : SUBSET {"amount", "interval", "trial_period_days"},
     amount : {0, 2500, 10000},
     interval : {"weeks", "months"},
     trial_period_days : {0, 7}]

\* _check_amount and _check_trial_period on a record.
_check_amount(rec) == rec.amount > 0
_check_trial_period(rec) == rec.trial_period_days >= 0

\* culqi.plan.write(vals) on plan p: the values are written and the
\* constraints of the fields written are checked; a write of amount then
\* marks the plan as not synchronised.
plan_write_run(db, p, vals) ==
    LET rec == db.plans[p]
        written ==
            [rec EXCEPT
               !.amount = IF "amount" \in vals.fields THEN vals.amount ELSE @,
               !.interval = IF "interval" \in vals.fields
                            THEN vals.interval ELSE @,
               !.trial_period_days = IF "trial_period_days" \in vals.fields
                                     THEN vals.trial_period_days ELSE @]
        marked == IF "amount" \in vals.fields
                  THEN [written EXCEPT !.is_synced = FALSE] ELSE written
    IN  IF _check_amount(written) /\ _check_trial_period(written)
        THEN [raised |-> FALSE, db |-> [db EXCEPT !.plans[p] = marked]]
        ELSE [raised |-> TRUE, db |-> db]

\* culqi.plan.unlink on plan p: refused while the plan has subscriptions.
plan_unlink_run(db, p) ==
    IF plan_subscription_ids(db, p) # {}
    THEN [raised |-> TRUE, db |-> db]
    ELSE [raised |-> FALSE, db |-> [db EXCEPT !.plans[p] = NoPlanRecord]]

\* --------------------------------------------------------- spec (plans)
InitPlan ==
    /\ tx = [t \in TxIds |->
                [amount |-> Amount[t],
                 currency |-> Currency[t],
                 state |-> "draft",
                 culqi_charge_id |-> NoCharge,
                 provider_reference |-> NoCharge,
                 culqi_refunded_amount |-> 0,
                 state_message |-> [text |-> None, detail |-> None]]]
    /\ charges_created = 0
    /\ charge_requests = [t \in TxIds |-> 0]
    /\ done_transitions = [t \in TxIds |-> 0]
    /\ call = NoCall
    /\ http = [status |-> 0, note |-> None, tx |-> NoTx, outcome |-> None]
    /\ raised = FALSE
    /\ refunds = << >>
    /\ culqi_refunds = 0
    /\ NoSubscriptions
    /\ cards = << >>
    /\ culqi_cards = {}
    /\ card_error = None
    /\ plans = PlanRecords
    /\ subscription_ids = << >>

\* The records after a call on plans, and whether it raised.
StorePlan(run) ==
    /\ plans' = run.db.plans
    /\ subscription_ids' = run.db.subscription_ids
    /\ raised' = run.raised
    /\ UNCHANGED <<vars, refund_vars, subscription_vars, card_vars>>

\* culqi.plan.write(vals) on plan p from the web client.
plan_write(p, vals) ==
    /\ plans[p] # NoPlanRecord
    /\ StorePlan(plan_write_run(PlanDb, p, vals))

\* culqi.plan.unlink on plan p from the web client.
plan_unlink(p) ==
    /\ plans[p] # NoPlanRecord
    /\ StorePlan(plan_unlink_run(PlanDb, p))

\* A subscription to plan p is created.
plan_subscribe(p) ==
    /\ plans[p] # NoPlanRecord
    /\ Len(subscription_ids) < MaxSubscriptionIds
    /\ StorePlan([raised |-> FALSE,
                  db |-> [PlanDb EXCEPT !.subscription_ids =
                            Append(@, [card_id |-> 1, plan_id |-> p,
                                       state |-> "draft"])]])

NextPlan ==
    \/ \E p \in PlanIds, vals \in PlanVals : plan_write(p, vals)
    \/ \E p \in PlanIds : plan_unlink(p)
    \/ \E p \in PlanIds : plan_subscribe(p)

SpecPlan == InitPlan /\ [][NextPlan]_all_vars

\* ------------------------------------------------------------ properties
Terminal == {"done", "error", "cancel"}

\* A charge object as the gateway sends it in a notification for charge c
\* of transaction t with outcome o: the metadata is the one the charge was
\* created with by _get_specific_processing_values.
GatewayNotification(t, c, o) ==
    [id |-> c, outcome |-> o, tx_ref |-> Reference[t], signature |-> "valid",
     body |-> "json"]

\* C1: for a transaction a charge was requested for, a notification with the
\* successful outcome that carries the transaction's reference leaves it in
\* done, the identical notification delivered again changes nothing and is
\* answered 200, and over the whole run the transaction moved into done at
\* most once.
C1_DoneOnceUnderReplay ==
    \A t \in TxIds :
        /\ done_transitions[t] <= 1
        /\ charge_requests[t] >= 1 =>
             \A n \in Notifications :
                 (/\ n.body = "json"
                  /\ n.id # NoCharge
                  /\ n.outcome.type = "venta_exitosa"
                  /\ n.tx_ref = Reference[t]) =>
                     LET first == culqi_webhook_run(tx, n)
                         replay == culqi_webhook_run(first.tx, n)
                     IN  /\ first.tx[t].state = "done"
                         /\ replay.tx = first.tx
                         /\ replay.http.status = 200

\* A successful notification was the last one processed, for a transaction
\* with a charge request, and the transaction is done, once.
C1_Witness ==
    \E t \in TxIds :
        /\ http.note = "processed" /\ http.tx = t
        /\ http.outcome = "venta_exitosa"
        /\ charge_requests[t] >= 1
        /\ tx[t].state = "done" /\ done_transitions[t] = 1

\* C2: while the reply to a charge request is in flight, for every outcome of
\* the charge, applying the reply then the notification and applying the
\* notification then the reply end in the same state with the same charge id,
\* and the one applied second changes nothing; for the successful and the
\* declined outcome the first one leaves a terminal state and the two final
\* records are equal.
C2_EitherOrderConverges ==
    (call # NoCall /\ call.charge # NoCharge) =>
        \A o \in Outcomes :
            LET t == call.tx
                response == _culqi_make_request(
                                [kind |-> "ok", id |-> call.charge, outcome |-> o]).json
                n == GatewayNotification(t, call.charge, o)
                reply_first == [tx EXCEPT ![t] = _process_culqi_response(@, response)]
                reply_then_webhook == culqi_webhook_run(reply_first, n).tx
                webhook_first == culqi_webhook_run(tx, n).tx
                webhook_then_reply ==
                    [webhook_first EXCEPT ![t] = _process_culqi_response(@, response)]
            IN  /\ reply_then_webhook = reply_first
                /\ webhook_then_reply = webhook_first
                /\ reply_then_webhook[t].state = webhook_then_reply[t].state
                /\ reply_then_webhook[t].culqi_charge_id
                       = webhook_then_reply[t].culqi_charge_id
                /\ o.type \in {"venta_exitosa", "venta_rechazada"} =>
                       /\ reply_first[t].state \in Terminal
                       /\ webhook_first[t].state \in Terminal
                       /\ reply_then_webhook = webhook_then_reply

\* The notification of a declined charge was applied while the reply to the
\* request that created the charge is still in flight.
C2_Witness ==
    /\ call # NoCall /\ call.charge # NoCharge
    /\ http.note = "processed" /\ http.tx = call.tx
    /\ http.outcome = "venta_rechazada"
    /\ tx[call.tx].culqi_charge_id = call.charge
    /\ tx[call.tx].state = "error"

\* C3: a transaction in a terminal state is not in pending after any gateway
\* response and after any notification that resolves to it, whatever the
\* outcome type, a missing one included.
C3_TerminalNeverPending ==
    \A t \in TxIds :
        tx[t].state \in Terminal =>
            \A c \in ChargeIds, o \in Outcomes \cup {NoOutcome} :
                /\ _process_culqi_response(tx[t], [id |-> c, outcome |-> o]).state
                       # "pending"
                /\ culqi_webhook_run(tx, GatewayNotification(t, c, o)).tx[t].state
                       # "pending"

\* A transaction no charge was ever requested for is done, so only
\* notifications have touched it, and the last notification processed was
\* one of pending type for it.
C3_Witness ==
    \E t \in TxIds :
        /\ charge_requests[t] = 0
        /\ tx[t].state = "done"
        /\ http.note = "processed" /\ http.tx = t /\ http.outcome = "pendiente"

\* C4: no transaction has more than one charge-creation request sent to the
\* gateway for it.
C4_OneChargeRequestPerTransaction ==
    \A t \in TxIds : charge_requests[t] <= 1

\* C5: no two transactions that are not cancelled hold the same charge id.
C5_ChargeIdHeldOnce ==
    \A t1, t2 \in TxIds :
        (/\ t1 # t2
         /\ tx[t1].state # "cancel" /\ tx[t2].state # "cancel"
         /\ tx[t1].culqi_charge_id # NoCharge) =>
            tx[t1].culqi_charge_id # tx[t2].culqi_charge_id

\* A notification whose reference is the reference of no transaction and
\* whose charge id is stored on no transaction.
Unresolvable(n) ==
    \A t \in TxIds :
        /\ Reference[t] # n.tx_ref
        /\ n.id = NoCharge \/ tx[t].culqi_charge_id # n.id

\* C6: a well-formed notification that matches no transaction, neither by
\* charge id nor by reference, leaves every transaction as it was, creates
\* none, and is answered as ignored.
C6_UnresolvedDiscarded ==
    \A n \in Notifications :
        (n.body = "json" /\ Unresolvable(n)) =>
            LET run == culqi_webhook_run(tx, n)
            IN  /\ run.tx = tx
                /\ DOMAIN run.tx = TxIds
                /\ run.http.note = "ignored"

\* The last notification was ignored while a transaction had left draft.
C6_Witness ==
    /\ http.note = "ignored"
    /\ \E t \in TxIds : tx[t].state # "draft" /\ tx[t].culqi_charge_id # NoCharge

\* C7: a notification without a reference in its metadata whose charge id is
\* the charge id stored on a transaction is processed for that transaction.
C7_FoundByChargeId ==
    \A t \in TxIds : \A n \in Notifications :
        (/\ n.body = "json"
         /\ n.tx_ref = NoRef
         /\ n.id # NoCharge
         /\ tx[t].culqi_charge_id = n.id) =>
            LET run == culqi_webhook_run(tx, n)
            IN  run.http.note = "processed" /\ run.http.tx = t

\* C8: a notification whose signature is missing or garbled is answered with
\* a rejection and changes no transaction.
C8_BadSignatureRejected ==
    \A n \in Notifications :
        n.signature # "valid" =>
            LET run == culqi_webhook_run(tx, n)
            IN  run.tx = tx /\ run.http.status # 200

C10_GatewayFailureLeavesPending ==
    [][\A gateway_reply \in GatewayReplies(call.charge) :
          (gateway_reply.kind # "ok" /\ charge_reply(gateway_reply)) =>
              /\ tx'[call.tx].state = "pending"
              /\ charge_requests' = charge_requests]_vars

\* The response the gateway client returns for charge c with outcome o.
ChargeResponse(c, o) ==
    _culqi_make_request([kind |-> "ok", id |-> c, outcome |-> o]).json

\* C11: for every transaction and every charge id, applying a charge response
\* with the successful outcome type leaves the transaction in done, with its
\* charge id and its provider reference equal to the id of the response and
\* with a refunded amount of 0.
C11_SuccessfulChargeStored ==
    \A t \in TxIds, c \in ChargeIds, o \in Outcomes :
        o.type = "venta_exitosa" =>
            LET new == _process_culqi_response(tx[t], ChargeResponse(c, o))
            IN  /\ new.state = "done"
                /\ new.culqi_charge_id = c
                /\ new.provider_reference = c
                /\ new.culqi_refunded_amount = 0

\* A direct payment with a token has returned and the transaction is done
\* with the charge the gateway created.
C11_Witness ==
    \E t \in TxIds :
        /\ call = NoCall /\ ~raised
        /\ charge_requests[t] = 1
        /\ tx[t].state = "done"
        /\ tx[t].culqi_charge_id # NoCharge
        /\ tx[t].provider_reference = tx[t].culqi_charge_id
        /\ tx[t].culqi_refunded_amount = 0

\* The state message is the fixed text followed by the detail: it includes
\* a message when one of its two parts is that message.
MessageIncludes(state_message, message) ==
    message \in {state_message.text, state_message.detail}

\* C12: for a transaction in draft, applying a charge response with the
\* declined outcome type leaves the transaction in error with a state
\* message that includes the merchant message of the outcome.
C12_DeclinedCarriesMerchantMessage ==
    \A t \in TxIds, c \in ChargeIds, o \in Outcomes :
        (tx[t].state = "draft" /\ o.type = "venta_rechazada") =>
            LET new == _process_culqi_response(tx[t], ChargeResponse(c, o))
            IN  /\ new.state = "error"
                /\ MessageIncludes(new.state_message, o.merchant_message)

\* C13: for every transaction, processing values without a token raise
\* ValidationError and the requests sent to the gateway are the ones sent
\* before the call; and whenever the last direct call raised while no
\* request was ever sent, no charge exists and no transaction has moved.
C13_MissingTokenRaisesBeforeRequest ==
    /\ \A t \in TxIds :
          LET run == _culqi_charge_request(t, [culqi_token |-> None],
                         [created |-> charges_created,
                          requests |-> charge_requests])
          IN  run.raised /\ run.requests = charge_requests
    /\ (raised /\ Requests = 0) =>
          /\ charges_created = 0
          /\ \A t \in TxIds : tx[t].state = "draft"

\* A direct call without a token has raised and no request has been sent.
C13_Witness ==
    raised /\ call = NoCall /\ Requests = 0

\* The succeeded refunds of transaction t among the records rs.
SucceededRefunds(rs, t) ==
    {r \in DOMAIN rs : rs[r].transaction_id = t /\ rs[r].state = "succeeded"}

\* C14: for every transaction, the sum of the amounts of its succeeded
\* refunds is at most its amount, and so is its refunded amount.
C14_RefundedWithinAmount ==
    \A t \in TxIds :
        /\ SumAmounts(refunds, SucceededRefunds(refunds, t)) <= tx[t].amount
        /\ tx[t].culqi_refunded_amount <= tx[t].amount

\* C15: a notification of a succeeded refund delivered a second time leaves
\* every transaction as the first delivery left it: the refunded amount of
\* the parent transaction is incremented once.
C15_NotificationAppliedOnce ==
    \A n \in RefundNotifications :
        (n.id # NoRefundId /\ n.status = "succeeded") =>
            LET first == handle_culqi_webhook_refund_run(Db, n)
                replay == handle_culqi_webhook_refund_run(first.db, n)
            IN  replay.db.tx = first.db.tx

\* C16: action_create_refund creates a refund only for an amount that is
\* positive and at most the remaining amount of the transaction, and it does
\* so for every such amount; the refund created is a draft of that amount;
\* a call that raises writes nothing, and no call reaches the gateway.
C16_CreateRefundValidatesAmount ==
    \A t \in TxIds, amount \in RefundAmounts \cup {NoAmount} :
        LET run == action_create_refund_run(Db, t, amount)
            remaining == tx[t].amount - tx[t].culqi_refunded_amount
            asked == IF amount = NoAmount THEN remaining ELSE amount
            r == Len(run.db.refunds)
        IN  /\ ~run.raised => (asked > 0 /\ asked <= remaining)
            /\ (/\ asked > 0 /\ asked <= remaining
                /\ tx[t].state = "done" /\ tx[t].culqi_charge_id # NoCharge)
                   => ~run.raised
            /\ ~run.raised =>
                  /\ r = Len(refunds) + 1
                  /\ SubSeq(run.db.refunds, 1, Len(refunds)) = refunds
                  /\ run.db.refunds[r].transaction_id = t
                  /\ run.db.refunds[r].amount = asked
                  /\ run.db.refunds[r].state = "draft"
                  /\ run.db.tx = tx
            /\ run.raised => run.db = Db
            /\ run.db.culqi_refunds = culqi_refunds

\* After a part of the first transaction was refunded, a draft refund of
\* exactly what remains exists, and the gateway was asked for no refund.
C16_Witness ==
    \E r \in DOMAIN refunds :
        LET t == refunds[r].transaction_id
        IN  /\ refunds[r].state = "draft"
            /\ refunds[r].refund_type = "manual"
            /\ tx[t].culqi_refunded_amount > 0
            /\ refunds[r].amount = tx[t].amount - tx[t].culqi_refunded_amount

\* C17: when a refund of the whole remaining amount of a transaction has
\* succeeded, so that the refunded amount is the amount of the transaction,
\* the payment state of the document the transaction pays is refunded.
C17_FullRefundDerivesRefunded ==
    \A t \in TxIds :
        (/\ SucceededRefunds(refunds, t) # {}
         /\ SumAmounts(refunds, SucceededRefunds(refunds, t)) = tx[t].amount
         /\ tx[t].culqi_refunded_amount = tx[t].amount) =>
            culqi_payment_state(Db, t) = "refunded"

TerminalRefund == {"succeeded", "failed", "canceled"}

\* The place of a refund state in draft, pending, processing, terminal.
Rank(state) ==
    CASE state = "draft" -> 0
      [] state = "pending" -> 1
      [] state = "processing" -> 2
      [] OTHER -> 3

\* A refund in state a may be in state b afterwards.
Advances(a, b) ==
    \/ a = b
    \/ a \notin TerminalRefund /\ Rank(b) > Rank(a)

\* C18: no notification, no submission to the gateway and no cancellation
\* moves a refund backward or out of succeeded, failed or canceled.
C18_RefundStateOnlyAdvances ==
    \A r \in DOMAIN refunds :
        /\ \A n \in RefundNotifications :
              Advances(refunds[r].state,
                       handle_culqi_webhook_refund_run(Db, n).db.refunds[r].state)
        /\ \A reply \in CreateReplies :
              Advances(refunds[r].state,
                       create_in_culqi_run(Db, r, reply).db.refunds[r].state)
        /\ Advances(refunds[r].state, action_cancel_run(Db, r).db.refunds[r].state)

\* C19: a failed refund is failed after every notification, submission and
\* cancellation; and for a transaction with a failed refund and a positive
\* remaining amount, a refund of the remaining amount is created and its
\* submission is not refused.
C19_FailedStaysAndDoesNotBlock ==
    \A r \in DOMAIN refunds :
        refunds[r].state = "failed" =>
            LET t == refunds[r].transaction_id
                remaining == tx[t].amount - tx[t].culqi_refunded_amount
                made == action_create_refund_run(Db, t, remaining)
                submitted == create_in_culqi_run(made.db, Len(made.db.refunds),
                                 [kind |-> "refund", status |-> "pending"])
            IN  /\ \A n \in RefundNotifications :
                      handle_culqi_webhook_refund_run(Db, n).db.refunds[r].state
                          = "failed"
                /\ \A reply \in CreateReplies :
                      create_in_culqi_run(Db, r, reply).db.refunds[r].state
                          = "failed"
                /\ action_cancel_run(Db, r).db.refunds[r].state = "failed"
                /\ remaining > 0 => (~made.raised /\ ~submitted.raised)

\* No two records of rs hold the same refund id.
OnePerRefundId(rs) ==
    \A r1, r2 \in DOMAIN rs :
        (r1 # r2 /\ rs[r1].culqi_refund_id # NoRefundId) =>
            rs[r1].culqi_refund_id # rs[r2].culqi_refund_id

Billable ==
    {s \in DOMAIN subscriptions :
        subscriptions[s].state \in {"active", "trial", "past_due"}}

\* C21: for every subscription that can be billed, a billing cycle whose
\* charge succeeds adds 1 to successful_charges and to billing_cycle_count
\* and plan.amount x quantity to total_paid, sets current_period_start to
\* the previous current_period_end and current_period_end to the new
\* current_period_start plus the interval of the plan.
C21_SuccessfulCycleAdvances ==
    \A s \in Billable :
        LET sub == subscriptions[s]
            run == process_billing_cycle(sub, "venta_exitosa", today)
        IN  /\ run.success
            /\ run.sub.successful_charges = sub.successful_charges + 1
            /\ run.sub.billing_cycle_count = sub.billing_cycle_count + 1
            /\ run.sub.total_paid
                  = sub.total_paid + Plan[sub.plan_id].amount * sub.quantity
            /\ run.sub.current_period_start = sub.current_period_end
            /\ run.sub.current_period_start # NoDate
            /\ run.sub.current_period_end
                  = get_next_billing_date(sub.plan_id,
                                          run.sub.current_period_start, today)

\* The monthly plan of 100.00 was billed successfully three times: 300.00
\* were paid in three cycles, and the period moved three months on.
C21_Witness ==
    \E s \in DOMAIN subscriptions :
        /\ subscriptions[s].plan_id = 1
        /\ subscriptions[s].quantity = 1
        /\ subscriptions[s].successful_charges = 3
        /\ subscriptions[s].total_paid = 30000
        /\ subscriptions[s].billing_cycle_count = 3
        /\ subscriptions[s].current_period_start = Date(2025, 4, 28)
        /\ subscriptions[s].current_period_end = Date(2025, 5, 28)

\* start_date plus n times the interval of the plan.
PlusIntervals(plan_id, start_date, n) ==
    LET plan == Plan[plan_id]
    IN  CASE plan.interval = "days" ->
                 timedelta(start_date, n * plan.interval_count)
          [] plan.interval = "weeks" ->
                 timedelta(start_date, 7 * n * plan.interval_count)
          [] plan.interval = "months" ->
                 relativedelta_months(start_date, n * plan.interval_count)
          [] plan.interval = "years" ->
                 relativedelta_years(start_date, n * plan.interval_count)
          [] OTHER -> start_date

\* C22: a subscription to a plan without trial that was billed successfully
\* N times, N being at least 1, has billing_cycle_count = N and
\* current_period_end = start_date + N x interval.
C22_PeriodEndAfterNCycles ==
    \A s \in DOMAIN subscriptions :
        LET sub == subscriptions[s]
            N == sub.successful_charges
        IN  (Plan[sub.plan_id].trial_period_days = 0 /\ N >= 1) =>
                /\ sub.billing_cycle_count = N
                /\ sub.current_period_end
                      = PlusIntervals(sub.plan_id, sub.start_date, N)

\* C23: in every state, the current_period_end of a subscription is its
\* current_period_start plus the interval of the plan it has now.
C23_PeriodEndDerived ==
    \A s \in DOMAIN subscriptions :
        LET sub == subscriptions[s]
        IN  sub.current_period_end
                = get_next_billing_date(sub.plan_id, sub.current_period_start,
                                        today)

\* The outcomes of a billing charge that failed.
FailedOutcomes == {"venta_rechazada", "exception"}

\* C24: for every subscription that can be billed, a billing cycle whose
\* charge fails adds 1 to failed_charges and leaves the subscription
\* past_due; when that was its first failed charge, no later clean-up moves
\* it to expired; and no subscription is expired with fewer than three
\* failed charges.
C24_FirstFailureNotExpired ==
    /\ \A s \in Billable, outcome \in FailedOutcomes :
          LET sub == subscriptions[s]
              run == process_billing_cycle(sub, outcome, today)
          IN  /\ ~run.success
              /\ run.sub.failed_charges = sub.failed_charges + 1
              /\ run.sub.state = "past_due"
              /\ sub.failed_charges = 0 =>
                    \A day \in {today} \cup Days :
                        cleanup_failed_subscriptions_run(run.sub, day).state
                            = "past_due"
    /\ \A s \in DOMAIN subscriptions :
          subscriptions[s].state = "expired" =>
              subscriptions[s].failed_charges >= 3

\* A subscription is past_due after its only failed charge, its billing
\* date is more than 30 days old, and it is not expired.
C24_Witness ==
    \E s \in DOMAIN subscriptions :
        /\ subscriptions[s].state = "past_due"
        /\ subscriptions[s].failed_charges = 1
        /\ subscriptions[s].next_billing_date # NoDate
        /\ subscriptions[s].next_billing_date < timedelta(today, -30)

\* The days a subscription has been past its billing date, and the
\* threshold of the clean-up.
PastDueAge(sub, now) ==
    IF sub.next_billing_date = NoDate THEN 0 ELSE now - sub.next_billing_date

AgeThreshold == 30

\* C25: the clean-up moves a past_due subscription that failed more than
\* once to expired exactly when its last three billing charges in a row
\* failed or its past-due age is beyond the threshold, either of the two
\* being enough.
C25_ExpiredOnThreeInARowOrAge ==
    \A s \in DOMAIN subscriptions :
        LET sub == subscriptions[s]
        IN  (sub.state = "past_due" /\ sub.failed_charges > 1) =>
                (cleanup_failed_subscriptions_run(sub, today).state = "expired"
                    <=> (\/ consecutive_failed >= 3
                         \/ PastDueAge(sub, today) > AgeThreshold))

\* The subscriptions in trial whose trial has ended today or earlier.
TrialEnded ==
    {s \in DOMAIN subscriptions :
        /\ subscriptions[s].state = "trial"
        /\ subscriptions[s].trial_end_date # NoDate
        /\ today >= subscriptions[s].trial_end_date}

\* C26: when a subscription in trial is billed on a day at or after the
\* end of its trial, by the scheduler or by the button, it is active when
\* the charge is submitted; a charge that succeeds leaves the state as it
\* was on submission.
C26_TrialActivatedBeforeBilling ==
    \A s \in TrialEnded :
        LET sub == subscriptions[s]
            scheduled == scheduled_billing(sub, "venta_exitosa", today)
            manual == process_billing_cycle(sub, "venta_exitosa", today)
        IN  /\ scheduled.charged => scheduled.sub.state = "active"
            /\ manual.charged => manual.sub.state = "active"

\* C27: a billing cycle whose charge succeeds, run by the button or by
\* the scheduler, does not leave the subscription past_due: a past_due
\* subscription is active afterwards.
C27_SuccessLeavesPastDue ==
    \A s \in Billable :
        LET sub == subscriptions[s]
            manual == process_billing_cycle(sub, "venta_exitosa", today)
            scheduled == scheduled_billing(sub, "venta_exitosa", today)
        IN  /\ manual.success =>
                  /\ manual.sub.state # "past_due"
                  /\ sub.state = "past_due" => manual.sub.state = "active"
            /\ scheduled.success => scheduled.sub.state # "past_due"

\* The subscriptions whose cancellation at the end of the period was
\* requested and that are not cancelled yet.
CancellationRequested ==
    {s \in DOMAIN subscriptions :
        /\ subscriptions[s].cancel_at_period_end
        /\ subscriptions[s].state # "cancelled"}

\* C28: once the cancellation at the end of the period is requested, a
\* scheduler pass before current_period_end leaves the state as it is, and
\* a scheduler pass on or after current_period_end leaves the subscription
\* cancelled.
C28_CancelledAtPeriodEnd ==
    \A s \in CancellationRequested, outcome \in ChargeOutcomes,
       reply \in DeleteReplies :
        LET sub == subscriptions[s]
            run == process_scheduled_billing_run(sub, culqi_subscription,
                                                 outcome, reply, today)
        IN  IF today < sub.current_period_end
            THEN run.sub.state = sub.state
            ELSE run.sub.state = "cancelled"

\* C29: an immediate cancellation that the gateway does not confirm, the
\* gateway rejecting the call or not answering, raises the error and leaves
\* the subscription and the gateway as they were; one that does not raise
\* was confirmed by the gateway and leaves the subscription cancelled today.
C29_CancelOnlyWhenConfirmed ==
    \A s \in DOMAIN subscriptions, reply \in DeleteReplies :
        LET sub == subscriptions[s]
            run == cancel_in_culqi(sub, culqi_subscription, reply, today)
        IN  /\ reply # "deleted" =>
                  /\ run.raised
                  /\ run.sub = sub
                  /\ run.gw = culqi_subscription
            /\ ~run.raised =>
                  /\ reply = "deleted"
                  /\ run.sub.state = "cancelled"
                  /\ run.sub.cancelled_date = today
                  /\ run.gw.state = "deleted"
            /\ (sub.state = "cancelled" /\ sub.cancelled_date # NoDate) =>
                  culqi_subscription.state = "deleted"

\* A subscription that exists on the gateway was cancelled on a later day
\* than it was created, the gateway having confirmed.
C29_Witness ==
    \E s \in DOMAIN subscriptions :
        /\ subscriptions[s].state = "cancelled"
        /\ subscriptions[s].culqi_subscription_id # NoSubscriptionId
        /\ subscriptions[s].cancelled_date = today
        /\ today > subscriptions[s].start_date
        /\ culqi_subscription.state = "deleted"

\* C30: a subscription that exists on the gateway and was not cancelled
\* there still has its record: the record is deleted only after the
\* gateway cancelled the subscription.
C30_DeletedOnlyAfterGatewayCancel ==
    culqi_subscription.state = "active" => subscriptions # << >>

\* C37: a synchronisation from the gateway, whatever the gateway answers,
\* leaves the state of a past_due or expired subscription as it is.
C37_SyncKeepsPastDueAndExpired ==
    \A s \in DOMAIN subscriptions, reply \in SubscriptionReplies :
        LET sub == subscriptions[s]
        IN  sub.state \in {"past_due", "expired"} =>
                /\ retrieve_from_culqi(sub, culqi_subscription, reply,
                                       today).sub.state = sub.state
                /\ subscription_create_in_culqi(sub, culqi_subscription,
                                                reply, today).sub.state
                       = sub.state

\* C40: action_reactivate on a subscription that is past_due, cancelled or
\* unpaid, its card being active, submits a charge, and when the charge
\* succeeds the subscription is active with cancel_at_period_end cleared.
C40_ReactivateChargesAndActivates ==
    \A s \in DOMAIN subscriptions :
        LET sub == subscriptions[s]
            run == action_reactivate_run(sub, "venta_exitosa", today)
        IN  sub.state \in {"past_due", "cancelled", "unpaid"} =>
                /\ run.charged
                /\ ~run.raised
                /\ run.sub.state = "active"
                /\ ~run.sub.cancel_at_period_end

\* C38: for every subscription that can be billed, the transaction of the
\* billing attempt that follows an attempt, failed or successful, has a
\* reference other than the reference of that attempt's transaction.
C38_BillingReferenceFresh ==
    \A s \in Billable, outcome \in ChargeOutcomes :
        LET sub == subscriptions[s]
            run == process_billing_cycle(sub, outcome, today)
        IN  run.charged =>
                transaction_reference(s, run.sub) # transaction_reference(s, sub)

\* The net proration of a plan change in the middle of a period, in
\* hundredths, rounded down: the difference of the daily rates of the new
\* and the old plan times the days that remain in the period.
NetProration(sub, old_plan, new_plan, now) ==
    ((Plan[new_plan].amount - Plan[old_plan].amount)
        * (sub.current_period_end - now))
    \div (sub.current_period_end - sub.current_period_start)

\* C31: when the plan of a subscription is changed in the middle of its
\* period with proration, a positive net proration is charged and a
\* negative one is credited, for the net amount.
C31_ProrationBilledOrCredited ==
    \A s \in Billable, new_plan \in PlanIds :
        LET sub == subscriptions[s]
            changed == _change_plan(sub, new_plan, today)
            run == _process_plan_proration(changed, sub.plan_id, new_plan,
                                           today)
            net == NetProration(sub, sub.plan_id, new_plan, today)
        IN  (/\ new_plan # sub.plan_id
             /\ sub.current_period_start <= today
             /\ today < sub.current_period_end) =>
                /\ net > 0 => (run.done = "charge" /\ run.amount = net)
                /\ net < 0 => (run.done = "credit" /\ run.amount = net)

\* C35: while both transactions are pending, the transaction a checkout
\* confirmation or a card payment is processed for is the transaction that
\* has the reference of the request, and none when no transaction has it.
C35_ConfirmationByReferenceOnly ==
    (\A t \in TxIds : tx[t].state = "pending") =>
        /\ \A reference \in RequestReferences :
              LET t == culqi_confirm_order_tx(reference)
              IN  t # NoTx => Reference[t] = reference
        /\ \A r \in CardRequests :
              LET t == culqi_process_card_tx(r.reference, r.amount,
                                             r.current_url)
              IN  t # NoTx => Reference[t] = r.reference

\* C39: when the gateway has created the charge of a request, the charge
\* that _get_specific_processing_values posts for the transaction, and the
\* charge that culqi_process_card posts for it whatever the amount of the
\* client request, carry the amount of the transaction in minor units and
\* its currency.
C39_ChargeForOwnAmount ==
    call.charge # NoCharge =>
        LET t == call.tx
        IN  /\ payload(tx[t], t).amount = tx[t].amount
            /\ payload(tx[t], t).currency_code = tx[t].currency
            /\ \A r \in CardRequests :
                  (/\ r.provider_id = "culqi" /\ r.card_data /\ r.amount # 0
                   /\ r.reference # NoRef
                   /\ culqi_process_card_tx(r.reference, r.amount,
                                            r.current_url) = t) =>
                      /\ charge_data(t, r.amount).amount = tx[t].amount
                      /\ charge_data(t, r.amount).currency_code
                            = tx[t].currency

\* C36: a refund record for which a refund-creation request has been issued,
\* by the button or by a pass of the scheduler, gets no second one, whatever
\* the gateway answered to the first: neither the button nor the scheduler
\* issues a request for it afterwards.
C36_RefundSubmittedOnce ==
    \A r \in DOMAIN refunds, first \in CreateReplies, second \in CreateReplies :
        LET run == create_in_culqi_run(Db, r, first)
        IN  run.requested =>
              /\ ~create_in_culqi_run(Committed(Db, run), r, second).requested
              /\ ~create_in_culqi_run(run.db, r, second).requested

\* The cards of customer k that are the default.
DefaultCards(db, k) ==
    {c \in CardIds(db) : db.cards[c].customer_id = k /\ db.cards[c].is_default}

\* C32: whatever cards have been created, written and made the default, no
\* customer has two default cards; and making a card the default, by write
\* or by action_set_as_default, is accepted and leaves it the only default
\* card of its customer.
C32_SingleDefaultPerCustomer ==
    /\ \A k \in CustomerIds : Cardinality(DefaultCards(CardDb, k)) <= 1
    /\ \A c \in CardIds(CardDb) :
          LET k == cards[c].customer_id
              written == card_write_run(CardDb, {c},
                             [fields |-> {"is_default"}, is_default |-> TRUE,
                              customer_id |-> k])
              set == action_set_as_default_run(CardDb, c)
          IN  /\ ~written.raised
              /\ DefaultCards(written.db, k) = {c}
              /\ ~set.raised
              /\ DefaultCards(set.db, k) = {c}

\* C32 witness: a customer has two cards, the default one and another,
\* which write and action_set_as_default are applied to.
C32_Witness ==
    \E c \in CardIds(CardDb), o \in CardIds(CardDb) :
        /\ c # o
        /\ cards[c].customer_id = cards[o].customer_id
        /\ cards[o].is_default
        /\ ~cards[c].is_default
        /\ DefaultCards(action_set_as_default_run(CardDb, c).db,
                        cards[c].customer_id) = {c}

\* The cards that have an active subscription.
CardsInUse(db) == {c \in CardIds(db) : active_subscriptions(db, c) # {}}

\* C33: a card with an active subscription is deleted by no call: unlink on
\* any cards that include it, delete_from_culqi and the route of the portal
\* raise or answer with the error, the record stays and the gateway keeps
\* the card.
C33_CardInUseNotDeleted ==
    \A c \in CardsInUse(CardDb), reply \in CardDeleteReplies :
        /\ \A ids \in SUBSET CardIds(CardDb) :
              c \in ids =>
                LET run == card_unlink_run(CardDb, ids, [o \in ids |-> reply])
                IN  /\ run.raised
                    /\ c \in culqi_cards => c \in run.db.culqi_cards
        /\ LET run == delete_from_culqi_run(CardDb, c, reply)
           IN  /\ run.raised
               /\ run.db = CardDb
        /\ LET run == portal_delete_payment_method_run(CardDb, c, reply)
           IN  /\ run.raised
               /\ run.db = CardDb

\* C33 witness: the deletion of a card that the gateway holds and that has
\* an active subscription has just been refused.
C33_Witness ==
    /\ card_error = ConActivas
    /\ \E c \in CardsInUse(CardDb) :
          /\ cards[c].culqi_card_id # NoCardId
          /\ cards[c].culqi_card_id \in culqi_cards

\* The plans that exist and have a subscription.
PlansInUse == {p \in PlanIds : plan_subscription_ids(PlanDb, p) # {}}

\* C34: a plan that has a subscription cannot be deleted, and no write
\* changes its amount, its interval or its trial_period_days: the write
\* raises or leaves the three as they are.
C34_PlanInUseImmutable ==
    \A p \in PlansInUse :
        /\ plan_unlink_run(PlanDb, p).raised
        /\ \A vals \in PlanVals :
              LET run == plan_write_run(PlanDb, p, vals)
              IN  \/ run.raised
                  \/ /\ run.db.plans[p].amount = plans[p].amount
                     /\ run.db.plans[p].interval = plans[p].interval
                     /\ run.db.plans[p].trial_period_days
                           = plans[p].trial_period_days

====
